---------------------------- MODULE Spec2Model ----------------------------
(***************************************************************************)
(* Model of the eBPF JSON-RPC agent (src/agent_main.go, kprobe variant,    *)
(* lines 1-414): the main goroutine (connectNATS, RunTracer, cleanup), the *)
(* signal-handler goroutine and the capture worker readAndProcessEvents    *)
(* with processAndPublishRPCEvent and PublishFeature.                      *)
(*                                                                         *)
(* Strings are sequences of one-character strings, so that the string      *)
(* functions of the agent are computed character by character.             *)
(***************************************************************************)
EXTENDS Integers, Sequences, FiniteSets, TLC

(***************************************************************************)
(* Bounds of the model                                                     *)
(***************************************************************************)
\* records the perf reader delivers in one run
MaxReads == 2

(***************************************************************************)
(* String helpers (Go: bytes.TrimRight, strings.TrimSuffix,                *)
(* strings.ReplaceAll, strings.Contains, fmt %d)                           *)
(***************************************************************************)
NUL == "NUL"

Last(s) == s[Len(s)]

RECURSIVE TrimRightNul(_)
TrimRightNul(s) ==
    IF s = <<>> \/ Last(s) # NUL THEN s
    ELSE TrimRightNul(SubSeq(s, 1, Len(s) - 1))

HasPrefixAt(s, p, i) ==
    /\ i >= 1
    /\ i + Len(p) - 1 <= Len(s)
    /\ SubSeq(s, i, i + Len(p) - 1) = p

Contains(s, p) == \E i \in 1..(Len(s) - Len(p) + 1) : HasPrefixAt(s, p, i)

TrimSuffix(s, p) ==
    IF Len(s) >= Len(p) /\ SubSeq(s, Len(s) - Len(p) + 1, Len(s)) = p
    THEN SubSeq(s, 1, Len(s) - Len(p))
    ELSE s

ReplaceAll(s, old, new) == [i \in 1..Len(s) |-> IF s[i] = old THEN new ELSE s[i]]

Digits == <<"0", "1", "2", "3", "4", "5", "6", "7", "8", "9">>

RECURSIVE Dec(_)
Dec(n) == IF n < 10 THEN <<Digits[n + 1]>> ELSE Dec(n \div 10) \o <<Digits[(n % 10) + 1]>>

(***************************************************************************)
(* String constants of the agent                                           *)
(***************************************************************************)
MethodKey == <<"\"", "m", "e", "t", "h", "o", "d", "\"">>
EthPrefix == <<"e", "t", "h", "_">>
PostSlash == <<"P", "O", "S", "T", " ", "/">>
EthCall == <<"e", "t", "h", "_", "c", "a", "l", "l">>
EthSendTransaction == <<"e", "t", "h", "_", "s", "e", "n", "d", "T", "r", "a", "n", "s", "a", "c", "t", "i", "o", "n">>
EthGetBalance == <<"e", "t", "h", "_", "g", "e", "t", "B", "a", "l", "a", "n", "c", "e">>
Unknown == <<"u", "n", "k", "n", "o", "w", "n">>
StrRpc == <<"r", "p", "c">>
StrHttps == <<"h", "t", "t", "p", "s">>
StrHttp == <<"h", "t", "t", "p">>
StrRequest == <<"r", "e", "q", "u", "e", "s", "t">>
StrResponse == <<"r", "e", "s", "p", "o", "n", "s", "e">>
StrSend == <<"s", "e", "n", "d">>
StrRecv == <<"r", "e", "c", "v">>
StrSizeSuffix == <<"_", "s", "i", "z", "e">>
Dot == "."
Hyphen == "-"

\* regexp class [a-zA-Z0-9_]
WordChars ==
    { "a", "b", "c", "d", "e", "f", "g", "h", "i", "j", "k", "l", "m", "n", "o", "p",
      "q", "r", "s", "t", "u", "v", "w", "x", "y", "z", "A", "B", "C", "D", "E", "F",
      "G", "H", "I", "J", "K", "L", "M", "N", "O", "P", "Q", "R", "S", "T", "U", "V",
      "W", "X", "Y", "Z", "0", "1", "2", "3", "4", "5", "6", "7", "8", "9", "_" }

\* regexp class \s
SpaceChars == { " ", "\t", "\n", "\f", "\r" }

(***************************************************************************)
(* ipToString: uint32 to dotted notation, low byte first                   *)
(***************************************************************************)
ByteOf(ip, shift) == (ip \div shift) % 256

ipToString(ip) ==
    Dec(ByteOf(ip, 1)) \o <<Dot>> \o Dec(ByteOf(ip, 256)) \o <<Dot>>
        \o Dec(ByteOf(ip, 65536)) \o <<Dot>> \o Dec(ByteOf(ip, 16777216))

(***************************************************************************)
(* getHostnameFromIP: lookup is the answer of net.LookupAddr,              *)
(* [err |-> BOOLEAN, names |-> sequence of names]                          *)
(***************************************************************************)
\* Mutation of getHostnameFromIP: the fallback returns the dotted address as
\* it is
getHostnameFromIP_RawFallback(ipStr, lookup) ==
    IF ~lookup.err /\ Len(lookup.names) > 0
    THEN ReplaceAll(TrimSuffix(lookup.names[1], <<Dot>>), Dot, Hyphen)
    ELSE ipStr

\* Mutation of getHostnameFromIP: the trailing dot of the name is not removed
\* before the dots are replaced
getHostnameFromIP_NoTrim(ipStr, lookup) ==
    IF ~lookup.err /\ Len(lookup.names) > 0
    THEN ReplaceAll(lookup.names[1], Dot, Hyphen)
    ELSE ReplaceAll(ipStr, Dot, Hyphen)

\* Mutation of getHostnameFromIP: the dots of a resolved name are not replaced
getHostnameFromIP_NoReplace(ipStr, lookup) ==
    IF ~lookup.err /\ Len(lookup.names) > 0
    THEN TrimSuffix(lookup.names[1], <<Dot>>)
    ELSE ReplaceAll(ipStr, Dot, Hyphen)

getHostnameFromIP(ipStr, lookup) ==
    IF ~lookup.err /\ Len(lookup.names) > 0
    THEN ReplaceAll(TrimSuffix(lookup.names[1], <<Dot>>), Dot, Hyphen)
    ELSE ReplaceAll(ipStr, Dot, Hyphen)

(***************************************************************************)
(* extractETHMethodFromPayload                                             *)
(*   regexp  "method"\s*:\s*"(eth_[a-zA-Z0-9_]+)"  , leftmost match, then  *)
(*   the substring table guarded by "POST /"                               *)
(***************************************************************************)
RECURSIVE SkipWhile(_, _, _)
\* first index j >= i with j > Len(s) or s[j] not in class
SkipWhile(s, i, class) ==
    IF i <= Len(s) /\ s[i] \in class THEN SkipWhile(s, i + 1, class) ELSE i

CharAt(s, i, c) == i <= Len(s) /\ s[i] = c

\* the submatch of the regexp anchored at i, or <<>> when it does not match there
MatchAt(s, i) ==
    IF ~HasPrefixAt(s, MethodKey, i) THEN <<>>
    ELSE LET b == SkipWhile(s, i + Len(MethodKey), SpaceChars) IN
         IF ~CharAt(s, b, ":") THEN <<>>
         ELSE LET d == SkipWhile(s, b + 1, SpaceChars) IN
              IF ~CharAt(s, d, "\"") THEN <<>>
              ELSE IF ~HasPrefixAt(s, EthPrefix, d + 1) THEN <<>>
              ELSE LET f == d + 1 + Len(EthPrefix)
                       g == SkipWhile(s, f, WordChars)
                   IN IF g > f /\ CharAt(s, g, "\"")
                      THEN SubSeq(s, d + 1, g - 1)
                      ELSE <<>>

\* Mutation of FindStringSubmatch: the rightmost match is returned
FindStringSubmatch_Last(s) ==
    LET hits == { i \in 1..Len(s) : MatchAt(s, i) # <<>> } IN
    IF hits = {} THEN <<>>
    ELSE MatchAt(s, CHOOSE i \in hits : \A j \in hits : i >= j)

FindStringSubmatch(s) ==
    LET hits == { i \in 1..Len(s) : MatchAt(s, i) # <<>> } IN
    IF hits = {} THEN <<>>
    ELSE MatchAt(s, CHOOSE i \in hits : \A j \in hits : i <= j)

\* Mutation of extractETHMethodFromPayload: the substring table is consulted
\* without the "POST /" guard
extractETHMethodFromPayload_NoPostGuard(payload) ==
    LET m == FindStringSubmatch(payload) IN
    IF m # <<>> THEN m
    ELSE IF Contains(payload, EthCall) THEN EthCall
    ELSE IF Contains(payload, EthSendTransaction) THEN EthSendTransaction
    ELSE IF Contains(payload, EthGetBalance) THEN EthGetBalance
    ELSE Unknown

\* Mutation of extractETHMethodFromPayload: the substring table is consulted
\* in another order
extractETHMethodFromPayload_TableOrder(payload) ==
    LET m == FindStringSubmatch(payload) IN
    IF m # <<>> THEN m
    ELSE IF Contains(payload, PostSlash) /\ Contains(payload, EthGetBalance)
         THEN EthGetBalance
    ELSE IF Contains(payload, PostSlash) /\ Contains(payload, EthSendTransaction)
         THEN EthSendTransaction
    ELSE IF Contains(payload, PostSlash) /\ Contains(payload, EthCall) THEN EthCall
    ELSE Unknown

\* Mutation of extractETHMethodFromPayload: no method found gives the empty
\* string
extractETHMethodFromPayload_NoSentinel(payload) ==
    LET m == FindStringSubmatch(payload) IN
    IF m # <<>> THEN m
    ELSE IF Contains(payload, PostSlash) /\ Contains(payload, EthCall) THEN EthCall
    ELSE IF Contains(payload, PostSlash) /\ Contains(payload, EthSendTransaction)
         THEN EthSendTransaction
    ELSE IF Contains(payload, PostSlash) /\ Contains(payload, EthGetBalance)
         THEN EthGetBalance
    ELSE <<>>

extractETHMethodFromPayload(payload) ==
    LET m == FindStringSubmatch(payload) IN
    IF m # <<>> THEN m
    ELSE IF Contains(payload, PostSlash) /\ Contains(payload, EthCall) THEN EthCall
    ELSE IF Contains(payload, PostSlash) /\ Contains(payload, EthSendTransaction)
         THEN EthSendTransaction
    ELSE IF Contains(payload, PostSlash) /\ Contains(payload, EthGetBalance)
         THEN EthGetBalance
    ELSE Unknown

(***************************************************************************)
(* RPCEvent and the records of the perf buffer                             *)
(***************************************************************************)
\* binary.Size(RPCEvent): PID, TimestampNs, DataLen, IsSend, DestIP, DestPort,
\* Comm, Data
RecordSize == 8 + 8 + 4 + 4 + 4 + 2 + 16 + 512

\* the zero value of `var event RPCEvent`
ZeroEvent ==
    [PID |-> 0, TimestampNs |-> 0, DataLen |-> 0, IsSend |-> 0, DestIP |-> 0,
     DestPort |-> 0, Comm |-> <<>>, Data |-> <<>>]

PayloadGetBalance == <<"{", "\"", "m", "e", "t", "h", "o", "d", "\"", ":", "\"", "e", "t", "h", "_", "g", "e", "t", "B", "a", "l", "a", "n", "c", "e", "\"", "}">>
PayloadPostCall == <<"P", "O", "S", "T", " ", "/", " ", "e", "t", "h", "_", "c", "a", "l", "l", NUL, NUL>>
CommNode == <<"n", "o", "d", "e", NUL>>

\* 34.185.237.112 and 10.0.0.7 as the little-endian uint32 the probe stores
IpGelato == 34 + 185 * 256 + 237 * 65536 + 112 * 16777216
IpLocal == 10 + 7 * 16777216

\* A perf.Record: rawLen = len(RawSample), lost = LostSamples, ev = the fields
\* the first RecordSize bytes of RawSample hold.  The reader delivers either a
\* sample (lost = 0) or a lost-samples notice (empty RawSample).
Records ==
    { [rawLen |-> 0, lost |-> 3, ev |-> ZeroEvent],
      [rawLen |-> 296, lost |-> 0, ev |-> ZeroEvent],
      [rawLen |-> 560, lost |-> 0,
       ev |-> [PID |-> 279776, TimestampNs |-> 1001, DataLen |-> 342, IsSend |-> 1,
               DestIP |-> IpGelato, DestPort |-> 443, Comm |-> CommNode,
               Data |-> PayloadGetBalance]],
      [rawLen |-> 558, lost |-> 0,
       ev |-> [PID |-> 42, TimestampNs |-> 1003, DataLen |-> 70000, IsSend |-> 0,
               DestIP |-> IpLocal, DestPort |-> 9999, Comm |-> CommNode,
               Data |-> PayloadPostCall]] }

ZeroRecord == [rawLen |-> 0, lost |-> 0, ev |-> ZeroEvent]

\* answers of net.LookupAddr
HostFqdn == <<"r", "p", "c", ".", "g", "e", "l", "a", "t", "o", ".", "d", "i", "g", "i", "t", "a", "l", ".">>

\* what the resolver sends back for a reverse lookup: an error, or the PTR
\* names of the address
LookupAnswers ==
    { [err |-> TRUE, names |-> <<>>],
      [err |-> FALSE, names |-> <<HostFqdn>>] }

\* the zero value of `names, err`
NoLookup == [err |-> FALSE, names |-> <<>>]

DigitChars == { "0", "1", "2", "3", "4", "5", "6", "7", "8", "9" }

RECURSIVE DomainScan(_, _, _, _, _)
\* the loop of isDomainName over s[i..], with its locals last, nonNumeric, partlen
DomainScan(s, i, last, nonNumeric, partlen) ==
    IF i > Len(s)
    THEN last # Hyphen /\ partlen <= 63 /\ nonNumeric
    ELSE LET c == s[i] IN
         IF c \in WordChars \ DigitChars
         THEN DomainScan(s, i + 1, c, TRUE, partlen + 1)
         ELSE IF c \in DigitChars
         THEN DomainScan(s, i + 1, c, nonNumeric, partlen + 1)
         ELSE IF c = Hyphen
         THEN last # Dot /\ DomainScan(s, i + 1, c, TRUE, partlen + 1)
         ELSE IF c = Dot
         THEN /\ last # Dot
              /\ last # Hyphen
              /\ partlen <= 63
              /\ partlen # 0
              /\ DomainScan(s, i + 1, c, nonNumeric, 0)
         ELSE FALSE

\* net.isDomainName: the names net.LookupAddr lets through
IsDomainName(s) ==
    \/ s = <<Dot>>
    \/ /\ Len(s) # 0
       /\ Len(s) <= 254
       /\ (Len(s) = 254 => Last(s) = Dot)
       /\ DomainScan(s, 1, Dot, FALSE, 0)

\* net.LookupAddr(ipStr) on the answer raw of the resolver: the names that are
\* not domain names are dropped, and an error is returned in their place
LookupAddr(raw) ==
    IF raw.err THEN [err |-> TRUE, names |-> <<>>]
    ELSE LET filtered == SelectSeq(raw.names, IsDomainName) IN
         [err |-> Len(filtered) # Len(raw.names), names |-> filtered]

\* Mutation of DecodeOK: only a sample of exactly RecordSize bytes decodes
DecodeOK_ExactLength(rec) == rec.rawLen = RecordSize

\* binary.Read(bytes.NewBuffer(record.RawSample), binary.LittleEndian, &event):
\* reads binary.Size(event) bytes; fewer available is an error and leaves event
\* untouched, more available are left in the buffer
DecodeOK(rec) == rec.rawLen >= RecordSize

\* the destination ports the kernel probe lets through
AllowedPorts == {443, 8545, 8547}

AppID == "arbitrum-node-service"

(***************************************************************************)
(* State                                                                   *)
(***************************************************************************)
Resources == {"nc", "objs", "kprobe", "reader"}

VARIABLES
    mpc,            \* position of the main goroutine
    attempt,        \* connectNATS: loop index i (0 once the call has returned a connection)
    waits,          \* connectNATS: the sleeps of the call in progress, in seconds
    res,            \* each resource: "none", "open" or "closed"
    acquireLog,     \* resources in the order they were acquired
    closeLog,       \* resources in the order Close was called on them
    cancelled,      \* the agent context is done
    sigChan,        \* number of signals buffered in sigs (capacity 1)
    hpc,            \* position of the signal-handler goroutine
    wpc,            \* position of the worker readAndProcessEvents
    record,         \* worker: the record Read returned last
    event,          \* worker: `var event RPCEvent`, reused by every iteration
    hostname,       \* worker: destHostname of the record being processed
    lookupRes,      \* worker: names, err of the last net.LookupAddr call
    reads,          \* history: the records Read has returned
    stopRecord,     \* history: the record in the worker's hands when the context was cancelled, or 0
    lateReads,      \* history: number of Read calls begun with the context already cancelled
    extracted,      \* the results of the calls of extractJSONRPCMethod, in their order
                    \* (counted for the loop that checks the context before it reads)
    wlog,           \* the line the worker logged last
    decodeFails,    \* history: number of "Failed to parse event" lines
    warnings,       \* history: number of "Lost %d samples" warnings
    pubs            \* history: the PublishFeature calls

vars == <<mpc, attempt, waits, res, acquireLog, closeLog, cancelled, sigChan,
          hpc, wpc, record, event, hostname, lookupRes, reads, stopRecord,
          lateReads, extracted,
          wlog, decodeFails, warnings, pubs>>

mainVars == <<mpc, attempt, waits>>
resVars == <<res, acquireLog, closeLog>>
sigVars == <<sigChan, hpc>>
workerVars == <<wpc, record, event, hostname, lookupRes>>
histVars == <<reads, stopRecord, lateReads, extracted, wlog, decodeFails, warnings, pubs>>

\* the worker holds a record it has read and not yet finished with
InFlight == wpc \in {"lost", "decode", "resolve", "publish"}

\* the process runs until main returns or log.Fatalf exits
Alive == mpc \notin {"exited", "fatal"}

Init ==
    /\ mpc = "connect"
    /\ attempt = 0
    /\ waits = <<>>
    /\ res = [r \in Resources |-> "none"]
    /\ acquireLog = <<>>
    /\ closeLog = <<>>
    /\ cancelled = FALSE
    /\ sigChan = 0
    /\ hpc = "wait"
    /\ wpc = "idle"
    /\ record = ZeroRecord
    /\ event = ZeroEvent
    /\ hostname = <<>>
    /\ lookupRes = NoLookup
    /\ reads = <<>>
    /\ stopRecord = 0
    /\ lateReads = 0
    /\ extracted = <<>>
    /\ wlog = ""
    /\ decodeFails = 0
    /\ warnings = 0
    /\ pubs = <<>>

Acquire(r) ==
    /\ res' = [res EXCEPT ![r] = "open"]
    /\ acquireLog' = Append(acquireLog, r)
    /\ UNCHANGED closeLog

Close(r) ==
    /\ res' = [res EXCEPT ![r] = "closed"]
    /\ closeLog' = Append(closeLog, r)
    /\ UNCHANGED acquireLog

(***************************************************************************)
(* The signal-handler goroutine and the operating system's signals         *)
(***************************************************************************)
\* SIGINT or SIGTERM arrives: the runtime sends it to sigs without blocking,
\* and drops it when the buffer of one is full
SignalArrives ==
    /\ Alive
    /\ sigChan' = 1
    /\ UNCHANGED <<mainVars, resVars, cancelled, hpc, workerVars, histVars>>

\* sig := <-sigs
HandlerReceive ==
    /\ Alive
    /\ hpc = "wait"
    /\ sigChan = 1
    /\ sigChan' = 0
    /\ hpc' = "cancel"
    /\ UNCHANGED <<mainVars, resVars, cancelled, workerVars, histVars>>

\* Mutation of HandlerCancel: the handler logs the signal and returns without
\* calling cancel()
HandlerCancel_NoCancel ==
    /\ Alive
    /\ hpc = "cancel"
    /\ hpc' = "done"
    /\ UNCHANGED <<mainVars, resVars, cancelled, sigChan, workerVars, histVars>>

\* cancel()
HandlerCancel ==
    /\ Alive
    /\ hpc = "cancel"
    /\ cancelled' = TRUE
    /\ stopRecord' = IF ~cancelled /\ InFlight THEN Len(reads) ELSE stopRecord
    /\ hpc' = "done"
    /\ UNCHANGED <<mainVars, resVars, sigChan, workerVars, reads, lateReads, extracted,
                   wlog, decodeFails, warnings, pubs>>

(***************************************************************************)
(* The main goroutine: connectNATS, RunTracer, cleanup                     *)
(***************************************************************************)
MaxAttempts == 5

RECURSIVE Shl1(_)
\* 1 << i
Shl1(i) == IF i = 0 THEN 1 ELSE 2 * Shl1(i - 1)

\* Mutation of ConnectAttempt: the backoff grows by one second per attempt
\* instead of doubling
ConnectAttempt_LinearBackoff ==
    /\ mpc = "connect"
    /\ attempt < MaxAttempts
    /\ \E ok \in BOOLEAN :
         IF ok
         THEN /\ Acquire("nc")
              /\ mpc' = "memlock"
              /\ attempt' = 0
              /\ waits' = <<>>
         ELSE /\ waits' = Append(waits, attempt + 1)
              /\ attempt' = attempt + 1
              /\ UNCHANGED <<mpc, resVars>>
    /\ UNCHANGED <<cancelled, sigVars, workerVars, histVars>>

\* one iteration of the loop of connectNATS
ConnectAttempt ==
    /\ mpc = "connect"
    /\ attempt < MaxAttempts
    /\ \E ok \in BOOLEAN :
         IF ok
         THEN /\ Acquire("nc")
              /\ mpc' = "memlock"
              /\ attempt' = 0
              /\ waits' = <<>>
         ELSE /\ waits' = Append(waits, Shl1(attempt))
              /\ attempt' = attempt + 1
              /\ UNCHANGED <<mpc, resVars>>
    /\ UNCHANGED <<cancelled, sigVars, workerVars, histVars>>

\* Mutation of ConnectGiveUp: the loop bound is 3, so connectNATS gives up after
\* three failed attempts
ConnectGiveUp_Early ==
    /\ mpc = "connect"
    /\ attempt >= 3
    /\ mpc' = "fatal"
    /\ UNCHANGED <<attempt, waits, resVars, cancelled, sigVars, workerVars, histVars>>

\* connectNATS returns the error, main calls log.Fatalf
ConnectGiveUp ==
    /\ mpc = "connect"
    /\ attempt >= MaxAttempts
    /\ mpc' = "fatal"
    /\ UNCHANGED <<attempt, waits, resVars, cancelled, sigVars, workerVars, histVars>>

\* rlimit.RemoveMemlock()
RemoveMemlock ==
    /\ mpc = "memlock"
    /\ \E ok \in BOOLEAN : mpc' = IF ok THEN "load" ELSE "fatal"
    /\ UNCHANGED <<attempt, waits, resVars, cancelled, sigVars, workerVars, histVars>>

\* loadRpcObjects(objs, nil); a.EBPFObjs = objs
LoadObjects ==
    /\ mpc = "load"
    /\ \E ok \in BOOLEAN :
         IF ok
         THEN Acquire("objs") /\ mpc' = "kprobe"
         ELSE mpc' = "fatal" /\ UNCHANGED resVars
    /\ UNCHANGED <<attempt, waits, cancelled, sigVars, workerVars, histVars>>

\* link.Kprobe("tcp_sendmsg", ...); defer kp.Close()
AttachKprobe ==
    /\ mpc = "kprobe"
    /\ \E ok \in BOOLEAN :
         IF ok
         THEN Acquire("kprobe") /\ mpc' = "newreader"
         ELSE mpc' = "fatal" /\ UNCHANGED resVars
    /\ UNCHANGED <<attempt, waits, cancelled, sigVars, workerVars, histVars>>

\* Mutation of NewReader: the error of perf.NewReader is ignored and RunTracer
\* goes on to start the worker
NewReader_ErrorIgnored ==
    /\ mpc = "newreader"
    /\ \E ok \in BOOLEAN :
         IF ok
         THEN Acquire("reader") /\ mpc' = "spawn"
         ELSE mpc' = "spawn" /\ UNCHANGED resVars
    /\ UNCHANGED <<attempt, waits, cancelled, sigVars, workerVars, histVars>>

\* perf.NewReader(...); a.PerfReader = rd.  On an error RunTracer returns it,
\* which runs the deferred kp.Close() before main calls log.Fatalf
NewReader ==
    /\ mpc = "newreader"
    /\ \E ok \in BOOLEAN :
         IF ok
         THEN Acquire("reader") /\ mpc' = "spawn"
         ELSE mpc' = "failDeferKp" /\ UNCHANGED resVars
    /\ UNCHANGED <<attempt, waits, cancelled, sigVars, workerVars, histVars>>

\* go a.readAndProcessEvents()
StartWorker ==
    /\ mpc = "spawn"
    /\ mpc' = "wait"
    /\ wpc' = "loop"
    /\ UNCHANGED <<attempt, waits, resVars, cancelled, sigVars, record, event,
                   hostname, lookupRes, histVars>>

\* <-a.Ctx.Done(); return nil
WaitDone ==
    /\ mpc = "wait"
    /\ cancelled
    /\ mpc' = "deferKp"
    /\ UNCHANGED <<attempt, waits, resVars, cancelled, sigVars, workerVars, histVars>>

\* the deferred kp.Close() of RunTracer, on its normal and on its error return
DeferredKprobeClose ==
    /\ mpc \in {"deferKp", "failDeferKp"}
    /\ Close("kprobe")
    /\ mpc' = IF mpc = "deferKp" THEN "closeReader" ELSE "fatal"
    /\ UNCHANGED <<attempt, waits, cancelled, sigVars, workerVars, histVars>>

\* if agent.PerfReader != nil { agent.PerfReader.Close() }
ClosePerfReader ==
    /\ mpc = "closeReader"
    /\ IF res["reader"] # "none" THEN Close("reader") ELSE UNCHANGED resVars
    /\ mpc' = "closeObjs"
    /\ UNCHANGED <<attempt, waits, cancelled, sigVars, workerVars, histVars>>

\* Mutation of CloseObjects: the cleanup closes the perf reader a second time
\* instead of the eBPF objects
CloseObjects_WrongHandle ==
    /\ mpc = "closeObjs"
    /\ IF res["objs"] # "none" THEN Close("reader") ELSE UNCHANGED resVars
    /\ mpc' = "logStopped"
    /\ UNCHANGED <<attempt, waits, cancelled, sigVars, workerVars, histVars>>

\* if agent.EBPFObjs != nil { agent.EBPFObjs.Close() }
CloseObjects ==
    /\ mpc = "closeObjs"
    /\ IF res["objs"] # "none" THEN Close("objs") ELSE UNCHANGED resVars
    /\ mpc' = "logStopped"
    /\ UNCHANGED <<attempt, waits, cancelled, sigVars, workerVars, histVars>>

\* log.Println("Agent stopped gracefully.")
LogStopped ==
    /\ mpc = "logStopped"
    /\ mpc' = "deferNc"
    /\ UNCHANGED <<attempt, waits, resVars, cancelled, sigVars, workerVars, histVars>>

\* the deferred nc.Close() of main
DeferredNatsClose ==
    /\ mpc = "deferNc"
    /\ Close("nc")
    /\ mpc' = "deferCancel"
    /\ UNCHANGED <<attempt, waits, cancelled, sigVars, workerVars, histVars>>

\* the deferred cancel() of main, then main returns and the process ends
DeferredCancel ==
    /\ mpc = "deferCancel"
    /\ cancelled' = TRUE
    /\ mpc' = "exited"
    /\ UNCHANGED <<attempt, waits, resVars, sigVars, workerVars, histVars>>

(***************************************************************************)
(* processAndPublishRPCEvent: the feature built from a decoded event and   *)
(* the label getHostnameFromIP returned                                    *)
(***************************************************************************)
Direction(ev) == IF ev.IsSend = 1 THEN StrSend ELSE StrRecv

\* Mutation of MetricType: every record is counted as a response
MetricType_AlwaysResponse(ev) == StrResponse

MetricType(ev) == IF ev.IsSend = 1 THEN StrRequest ELSE StrResponse

Protocol(ev) ==
    IF ev.DestPort = 8545 \/ ev.DestPort = 8547 THEN StrHttp ELSE StrHttps

\* fmt.Sprintf("rpc.%s.%s.%s.%s_size", destHostname, protocol, ethMethod, metricType)
Subject(destHostname, protocol, ethMethod, metricType) ==
    StrRpc \o <<Dot>> \o destHostname \o <<Dot>> \o protocol \o <<Dot>>
        \o ethMethod \o <<Dot>> \o metricType \o StrSizeSuffix

\* time.Now() when the feature is created: the readings of the wall clock are
\* numbered in the order they are taken, one per feature
Now == Len(pubs) + 1

\* Mutation of BuildFeature: the value is the number of bytes captured, not
\* the length the event declares
BuildFeature_CapturedLength(ev, destHostname, now) ==
    LET ethMethod == extractETHMethodFromPayload(TrimRightNul(ev.Data)) IN
    [AppID |-> AppID,
     Protocol |-> "jsonrpc",
     FeatureType |-> MetricType(ev) \o StrSizeSuffix,
     Timestamp |-> now,
     Value |-> IF ev.DataLen > 512 THEN 512 ELSE ev.DataLen,
     ContextHash |-> Subject(destHostname, Protocol(ev), ethMethod, MetricType(ev)),
     Details |-> [pid |-> ev.PID,
                  process |-> TrimRightNul(ev.Comm),
                  method |-> ethMethod,
                  direction |-> Direction(ev),
                  size_bytes |-> ev.DataLen,
                  timestamp_ns |-> ev.TimestampNs,
                  dest_ip |-> ipToString(ev.DestIP),
                  dest_port |-> ev.DestPort,
                  dest_hostname |-> destHostname]]

BuildFeature(ev, destHostname, now) ==
    LET ethMethod == extractETHMethodFromPayload(TrimRightNul(ev.Data)) IN
    [AppID |-> AppID,
     Protocol |-> "jsonrpc",
     FeatureType |-> MetricType(ev) \o StrSizeSuffix,
     Timestamp |-> now,
     Value |-> ev.DataLen,
     ContextHash |-> Subject(destHostname, Protocol(ev), ethMethod, MetricType(ev)),
     Details |-> [pid |-> ev.PID,
                  process |-> TrimRightNul(ev.Comm),
                  method |-> ethMethod,
                  direction |-> Direction(ev),
                  size_bytes |-> ev.DataLen,
                  timestamp_ns |-> ev.TimestampNs,
                  dest_ip |-> ipToString(ev.DestIP),
                  dest_port |-> ev.DestPort,
                  dest_hostname |-> destHostname]]

(***************************************************************************)
(* The worker goroutine readAndProcessEvents                               *)
(***************************************************************************)
\* Mutation of IssueRead: the next read is issued without waiting for the
\* publish step of the record in hand
IssueRead_BeforePublish ==
    /\ Alive
    /\ wpc \in {"loop", "publish"}
    /\ wpc' = "reading"
    /\ UNCHANGED <<mainVars, resVars, cancelled, sigVars, record, event, hostname, lookupRes,
                   histVars>>

\* the top of the for loop: a.PerfReader.Read() is called
IssueRead ==
    /\ Alive
    /\ wpc = "loop"
    /\ wpc' = "reading"
    /\ UNCHANGED <<mainVars, resVars, cancelled, sigVars, record, event, hostname, lookupRes,
                   histVars>>

\* Read returns a record
ReadRecord ==
    /\ Alive
    /\ wpc = "reading"
    /\ res["reader"] = "open"
    /\ Len(reads) < MaxReads
    /\ \E r \in Records :
         /\ record' = r
         /\ reads' = Append(reads, r)
    /\ wpc' = "lost"
    /\ UNCHANGED <<mainVars, resVars, cancelled, sigVars, event, hostname, lookupRes,
                   stopRecord, lateReads, extracted, wlog, decodeFails, warnings, pubs>>

\* Mutation of ReadError: any read error ends the loop
ReadError_Returns ==
    /\ Alive
    /\ wpc = "reading"
    /\ res["reader"] = "open"
    /\ wlog' = "read_error"
    /\ wpc' = "returned"
    /\ UNCHANGED <<mainVars, resVars, cancelled, sigVars, record, event, hostname, lookupRes,
                   reads, stopRecord, lateReads, extracted, decodeFails, warnings, pubs>>

\* Read returns an error other than perf.ErrClosed: logged, continue
ReadError ==
    /\ Alive
    /\ wpc = "reading"
    /\ res["reader"] = "open"
    /\ wlog' = "read_error"
    /\ wpc' = "loop"
    /\ UNCHANGED <<mainVars, resVars, cancelled, sigVars, record, event, hostname, lookupRes,
                   reads, stopRecord, lateReads, extracted, decodeFails, warnings, pubs>>

\* Read returns perf.ErrClosed: the worker returns
ReadClosed ==
    /\ Alive
    /\ wpc = "reading"
    /\ res["reader"] = "closed"
    /\ wlog' = "reader_closed"
    /\ wpc' = "returned"
    /\ UNCHANGED <<mainVars, resVars, cancelled, sigVars, record, event, hostname, lookupRes,
                   reads, stopRecord, lateReads, extracted, decodeFails, warnings, pubs>>

\* Mutation of LostCheck: a loss report is treated as a fatal read error
LostCheck_Halts ==
    /\ Alive
    /\ wpc = "lost"
    /\ IF record.lost > 0
       THEN warnings' = warnings + 1 /\ wlog' = "lost_warning" /\ wpc' = "returned"
       ELSE UNCHANGED <<warnings, wlog>> /\ wpc' = "decode"
    /\ UNCHANGED <<mainVars, resVars, cancelled, sigVars, record, event, hostname, lookupRes,
                   reads, stopRecord, lateReads, extracted, decodeFails, pubs>>

\* if record.LostSamples > 0 { log the warning }
LostCheck ==
    /\ Alive
    /\ wpc = "lost"
    /\ IF record.lost > 0
       THEN warnings' = warnings + 1 /\ wlog' = "lost_warning"
       ELSE UNCHANGED <<warnings, wlog>>
    /\ wpc' = "decode"
    /\ UNCHANGED <<mainVars, resVars, cancelled, sigVars, record, event, hostname, lookupRes,
                   reads, stopRecord, lateReads, extracted, decodeFails, pubs>>

\* Mutation of Decode: the `continue` after a failed decode is missing, so the
\* stale event is processed
Decode_FallThrough ==
    /\ Alive
    /\ wpc = "decode"
    /\ IF DecodeOK(record)
       THEN /\ event' = record.ev
            /\ UNCHANGED <<decodeFails, wlog>>
       ELSE /\ decodeFails' = decodeFails + 1
            /\ wlog' = "parse_failed"
            /\ UNCHANGED event
    /\ wpc' = "resolve"
    /\ UNCHANGED <<mainVars, resVars, cancelled, sigVars, record, hostname, lookupRes,
                   reads, stopRecord, lateReads, extracted, warnings, pubs>>

\* Mutation of Decode: the decode does not overwrite the whole of the reused
\* event variable; the address of the event decoded before stays in it
Decode_PartialOverwrite ==
    /\ Alive
    /\ wpc = "decode"
    /\ IF DecodeOK(record)
       THEN /\ event' = IF event = ZeroEvent THEN record.ev
                        ELSE [record.ev EXCEPT !.DestIP = event.DestIP]
            /\ wpc' = "resolve"
            /\ UNCHANGED <<decodeFails, wlog>>
       ELSE /\ decodeFails' = decodeFails + 1
            /\ wlog' = "parse_failed"
            /\ wpc' = "loop"
            /\ UNCHANGED event
    /\ UNCHANGED <<mainVars, resVars, cancelled, sigVars, record, hostname, lookupRes,
                   reads, stopRecord, lateReads, extracted, warnings, pubs>>

\* binary.Read into event; on an error log it and continue
Decode ==
    /\ Alive
    /\ wpc = "decode"
    /\ IF DecodeOK(record)
       THEN /\ event' = record.ev
            /\ wpc' = "resolve"
            /\ UNCHANGED <<decodeFails, wlog>>
       ELSE /\ decodeFails' = decodeFails + 1
            /\ wlog' = "parse_failed"
            /\ wpc' = "loop"
            /\ UNCHANGED event
    /\ UNCHANGED <<mainVars, resVars, cancelled, sigVars, record, hostname, lookupRes,
                   reads, stopRecord, lateReads, extracted, warnings, pubs>>

\* processAndPublishRPCEvent(event) up to the return of getHostnameFromIP,
\* with the resolver answering from the set answers
ResolveFrom(answers) ==
    /\ Alive
    /\ wpc = "resolve"
    /\ \E raw \in answers :
         /\ lookupRes' = LookupAddr(raw)
         /\ hostname' = getHostnameFromIP(ipToString(event.DestIP), LookupAddr(raw))
    /\ wpc' = "publish"
    /\ UNCHANGED <<mainVars, resVars, cancelled, sigVars, record, event, histVars>>

Resolve == ResolveFrom(LookupAnswers)

\* Mutation of Publish: events to a port outside the allow-list are dropped
Publish_PortFiltered ==
    /\ Alive
    /\ wpc = "publish"
    /\ IF event.DestPort \in AllowedPorts
       THEN \E accepted \in BOOLEAN :
              LET feature == BuildFeature(event, hostname, Now)
                  ok == accepted /\ res["nc"] = "open"
              IN /\ pubs' = Append(pubs, [id |-> Len(reads),
                                          subject |-> feature.ContextHash,
                                          feature |-> feature,
                                          ok |-> ok])
                 /\ wlog' = IF ok THEN "published" ELSE "publish_failed"
       ELSE UNCHANGED <<pubs, wlog>>
    /\ wpc' = "loop"
    /\ UNCHANGED <<mainVars, resVars, cancelled, sigVars, record, event, hostname, lookupRes,
                   reads, stopRecord, lateReads, extracted, decodeFails, warnings>>

\* Mutation of Publish: a failed publish is retried once
Publish_Retry ==
    /\ Alive
    /\ wpc = "publish"
    /\ \E accepted \in BOOLEAN :
         LET feature == BuildFeature(event, hostname, Now)
             ok == accepted /\ res["nc"] = "open"
             call == [id |-> Len(reads), subject |-> feature.ContextHash,
                      feature |-> feature, ok |-> ok]
         IN /\ pubs' = IF ok THEN Append(pubs, call) ELSE pubs \o <<call, call>>
            /\ wlog' = IF ok THEN "published" ELSE "publish_failed"
    /\ wpc' = "loop"
    /\ UNCHANGED <<mainVars, resVars, cancelled, sigVars, record, event, hostname, lookupRes,
                   reads, stopRecord, lateReads, extracted, decodeFails, warnings>>

\* Mutation of Publish: the subject variable outlives the iteration, and the
\* message goes out under the subject of the previous call
Publish_StaleSubject ==
    /\ Alive
    /\ wpc = "publish"
    /\ \E accepted \in BOOLEAN :
         LET feature == BuildFeature(event, hostname, Now)
             ok == accepted /\ res["nc"] = "open"
             subject == IF pubs = <<>> THEN feature.ContextHash
                        ELSE pubs[Len(pubs)].subject
         IN /\ pubs' = Append(pubs, [id |-> Len(reads),
                                     subject |-> subject,
                                     feature |-> feature,
                                     ok |-> ok])
            /\ wlog' = IF ok THEN "published" ELSE "publish_failed"
    /\ wpc' = "loop"
    /\ UNCHANGED <<mainVars, resVars, cancelled, sigVars, record, event, hostname, lookupRes,
                   reads, stopRecord, lateReads, extracted, decodeFails, warnings>>

\* the rest of processAndPublishRPCEvent: build the feature, PublishFeature
\* (json.Marshal, NatsConn.Publish under feature.ContextHash), log an error.
\* Publish fails on a closed connection and may fail on an open one.
Publish ==
    /\ Alive
    /\ wpc = "publish"
    /\ \E accepted \in BOOLEAN :
         LET feature == BuildFeature(event, hostname, Now)
             ok == accepted /\ res["nc"] = "open"
         IN /\ pubs' = Append(pubs, [id |-> Len(reads),
                                     subject |-> feature.ContextHash,
                                     feature |-> feature,
                                     ok |-> ok])
            /\ wlog' = IF ok THEN "published" ELSE "publish_failed"
    /\ wpc' = "loop"
    /\ UNCHANGED <<mainVars, resVars, cancelled, sigVars, record, event, hostname, lookupRes,
                   reads, stopRecord, lateReads, extracted, decodeFails, warnings>>

(***************************************************************************)
(* Specification                                                           *)
(***************************************************************************)
Next ==
    \/ SignalArrives
    \/ HandlerReceive
    \/ HandlerCancel
    \/ ConnectAttempt
    \/ ConnectGiveUp
    \/ RemoveMemlock
    \/ LoadObjects
    \/ AttachKprobe
    \/ NewReader
    \/ StartWorker
    \/ WaitDone
    \/ DeferredKprobeClose
    \/ ClosePerfReader
    \/ CloseObjects
    \/ LogStopped
    \/ DeferredNatsClose
    \/ DeferredCancel
    \/ IssueRead
    \/ ReadRecord
    \/ ReadError
    \/ ReadClosed
    \/ LostCheck
    \/ Decode
    \/ Resolve
    \/ Publish

Spec == Init /\ [][Next]_vars

\* The Go scheduler runs every runnable goroutine, so each step that waits on
\* nothing outside the process is eventually taken.  nats.Connect carries
\* nats.Timeout(5*time.Second) and Read on a closed reader returns at once.
\* The calls without a deadline get no fairness: the arrival of a signal, of
\* a record or a read error (PerfReader.Read), the answer of the resolver
\* (net.LookupAddr) and the return of NatsConn.Publish.
LiveSpec ==
    /\ Spec
    /\ WF_vars(HandlerReceive)
    /\ WF_vars(HandlerCancel)
    /\ WF_vars(ConnectAttempt)
    /\ WF_vars(ConnectGiveUp)
    /\ WF_vars(RemoveMemlock)
    /\ WF_vars(LoadObjects)
    /\ WF_vars(AttachKprobe)
    /\ WF_vars(NewReader)
    /\ WF_vars(StartWorker)
    /\ WF_vars(WaitDone)
    /\ WF_vars(DeferredKprobeClose)
    /\ WF_vars(ClosePerfReader)
    /\ WF_vars(CloseObjects)
    /\ WF_vars(LogStopped)
    /\ WF_vars(DeferredNatsClose)
    /\ WF_vars(DeferredCancel)
    /\ WF_vars(IssueRead)
    /\ WF_vars(ReadClosed)
    /\ WF_vars(LostCheck)
    /\ WF_vars(Decode)

\* The same program with the worker's records cut to MaxSignalReads, for the
\* properties of main and of the signal handler, which the number of records
\* read does not touch.  Fairness as in LiveSpec, for main and the handler.
MaxSignalReads == 1

SignalReadRecord ==
    /\ Len(reads) < MaxSignalReads
    /\ ReadRecord

SignalNext ==
    \/ SignalArrives
    \/ HandlerReceive
    \/ HandlerCancel
    \/ ConnectAttempt
    \/ ConnectGiveUp
    \/ RemoveMemlock
    \/ LoadObjects
    \/ AttachKprobe
    \/ NewReader
    \/ StartWorker
    \/ WaitDone
    \/ DeferredKprobeClose
    \/ ClosePerfReader
    \/ CloseObjects
    \/ LogStopped
    \/ DeferredNatsClose
    \/ DeferredCancel
    \/ IssueRead
    \/ SignalReadRecord
    \/ ReadError
    \/ ReadClosed
    \/ LostCheck
    \/ Decode
    \/ Resolve
    \/ Publish

SignalSpec ==
    /\ Init
    /\ [][SignalNext]_vars
    /\ WF_vars(HandlerReceive)
    /\ WF_vars(HandlerCancel)
    /\ WF_vars(ConnectAttempt)
    /\ WF_vars(ConnectGiveUp)
    /\ WF_vars(RemoveMemlock)
    /\ WF_vars(LoadObjects)
    /\ WF_vars(AttachKprobe)
    /\ WF_vars(NewReader)
    /\ WF_vars(StartWorker)
    /\ WF_vars(WaitDone)
    /\ WF_vars(DeferredKprobeClose)
    /\ WF_vars(ClosePerfReader)
    /\ WF_vars(CloseObjects)
    /\ WF_vars(LogStopped)
    /\ WF_vars(DeferredNatsClose)
    /\ WF_vars(DeferredCancel)

(***************************************************************************)
(* The pipeline on one record: decode, getHostnameFromIP, publish, for     *)
(* records and resolver answers drawn from wider sets                      *)
(***************************************************************************)
\* payloads are built from at most MaxParts fragments
MaxParts == 3

FieldCall == <<"\"", "m", "e", "t", "h", "o", "d", "\"", ":", "\"", "e", "t", "h", "_", "c", "a", "l", "l", "\"">>
FieldGetBalanceSpaced == <<"\"", "m", "e", "t", "h", "o", "d", "\"", " ", ":", " ", "\"", "e", "t", "h", "_", "g", "e", "t", "B", "a", "l", "a", "n", "c", "e", "\"">>
FieldBareEth == <<"\"", "m", "e", "t", "h", "o", "d", "\"", ":", "\"", "e", "t", "h", "_", "\"">>
FieldNetVersion == <<"\"", "m", "e", "t", "h", "o", "d", "\"", ":", "\"", "n", "e", "t", "_", "v", "e", "r", "s", "i", "o", "n", "\"">>

FieldTruncated == <<"\"", "m", "e", "t", "h", "o", "d", "\"", ":", "\"", "e", "t", "h", "_", "c", "a", "l", "l">>

Fragments ==
    { FieldCall, FieldGetBalanceSpaced, FieldBareEth, FieldNetVersion,
      FieldTruncated, PostSlash, EthSendTransaction, EthCall, EthGetBalance }

RECURSIVE PayloadsUpTo(_)
PayloadsUpTo(n) ==
    IF n = 0 THEN { <<>> }
    ELSE LET shorter == PayloadsUpTo(n - 1) IN
         shorter \cup { f \o q : f \in Fragments, q \in shorter }

FnIps == { IpGelato, IpLocal, 0, 255 + 255 * 256 + 255 * 65536 + 127 * 16777216 }

FnPorts == { 443, 8545, 8547, 80 }

\* a sample of RecordSize bytes with the given fields; Data is NUL-padded
FnRecord(ip, port, isSend, payload) ==
    [rawLen |-> RecordSize, lost |-> 0,
     ev |-> [PID |-> 279776, TimestampNs |-> 1001, DataLen |-> 342,
             IsSend |-> isSend, DestIP |-> ip, DestPort |-> port,
             Comm |-> CommNode, Data |-> payload \o <<NUL>>]]

\* is_send as the probes write it (1 from tcp_sendmsg, 0 from tcp_recvmsg), and
\* a value no probe writes
FnDirections == { 0, 1, 2 }

\* data_len is the size argument of the call, whatever share of it was captured
FnLengths == { 342, 70000 }

\* a JSON-RPC batch request: [{"method":"eth_call"},{"method":"eth_getBalance"}]
PayloadBatch ==
    <<"[", "{">> \o FieldCall \o <<"}", ",", "{">>
        \o <<"\"", "m", "e", "t", "h", "o", "d", "\"", ":", "\"">> \o EthGetBalance
        \o <<"\"", "}", "]">>

\* samples whose bytes are all zero, or are not what the probe writes: Comm
\* and Data with bytes after a NUL, Data filled to its last byte, a port and a
\* length of zero
GarbageRecords ==
    { [rawLen |-> RecordSize, lost |-> 0,
       ev |-> [PID |-> 0, TimestampNs |-> 0, DataLen |-> 0, IsSend |-> 0,
               DestIP |-> 0, DestPort |-> 0, Comm |-> <<NUL, NUL>>,
               Data |-> <<NUL, NUL>>]],
      [rawLen |-> RecordSize, lost |-> 0,
       ev |-> [PID |-> 2147483647, TimestampNs |-> 7, DataLen |-> 0, IsSend |-> 7,
               DestIP |-> IpLocal, DestPort |-> 65535,
               Comm |-> <<"s", "h", NUL, "x", NUL>>,
               Data |-> <<NUL, "{">> \o FieldCall \o <<"}">>]] }

\* records that differ in address, port, direction, length and payload
LabelRecords ==
    { [FnRecord(ip, port, isSend, q) EXCEPT !.ev.DataLen = len] :
        ip \in FnIps, port \in FnPorts, isSend \in FnDirections,
        len \in FnLengths,
        q \in { <<>>, PayloadGetBalance, PayloadPostCall, PayloadBatch } }
      \cup GarbageRecords

\* records that differ in payload
SniffRecords == { FnRecord(IpGelato, 443, 1, q) : q \in PayloadsUpTo(MaxParts) }

NameLocalhost == <<"l", "o", "c", "a", "l", "h", "o", "s", "t">>
NameEc2 == <<"i", "p", "-", "1", "0", "-", "0", "-", "0", "-", "7", ".", "e", "c", "2", "_", "i", "n", "t", "e", "r", "n", "a", "l", ".">>
NameRoot == <<".">>
NameWildcard == <<"*", ".", "g", "e", "l", "a", "t", "o", ".", "d", "i", "g", "i", "t", "a", "l", ".">>
NameSpace == <<"b", "a", "d", " ", "h", "o", "s", "t", ".">>
NameDoubleDot == <<"g", "e", "l", "a", "t", "o", ".", ".">>
NameGreater == <<">", ".", "d", "i", "g", "i", "t", "a", "l", ".">>

\* answers of the resolver: an error, no name, well-formed names with and
\* without the trailing dot, the root name, several names, and names that
\* are not domain names
FnLookupAnswers ==
    { [err |-> TRUE, names |-> <<>>],
      [err |-> FALSE, names |-> <<>>],
      [err |-> FALSE, names |-> <<HostFqdn>>],
      [err |-> FALSE, names |-> <<NameLocalhost>>],
      [err |-> FALSE, names |-> <<NameEc2, HostFqdn>>],
      [err |-> FALSE, names |-> <<NameRoot>>],
      [err |-> FALSE, names |-> <<NameWildcard>>],
      [err |-> FALSE, names |-> <<NameSpace>>],
      [err |-> FALSE, names |-> <<NameDoubleDot>>],
      [err |-> FALSE, names |-> <<NameGreater, HostFqdn>>] }

\* the agent is running, the worker has just read one record of the set
OneRecordRead(records) ==
    /\ mpc = "wait"
    /\ attempt = 0
    /\ waits = <<>>
    /\ res = [r \in Resources |-> "open"]
    /\ acquireLog = <<"nc", "objs", "kprobe", "reader">>
    /\ closeLog = <<>>
    /\ cancelled = FALSE
    /\ sigChan = 0
    /\ hpc = "wait"
    /\ wpc = "decode"
    /\ record \in records
    /\ reads = <<record>>
    /\ event = ZeroEvent
    /\ hostname = <<>>
    /\ lookupRes = NoLookup
    /\ stopRecord = 0
    /\ lateReads = 0
    /\ extracted = <<>>
    /\ wlog = ""
    /\ decodeFails = 0
    /\ warnings = 0
    /\ pubs = <<>>

(***************************************************************************)
(* binary.Read at the level of bytes.  A byte is a number of 0..255; an    *)
(* unsigned integer of 2n bytes is kept as its n 16-bit digits, lowest     *)
(* first, since a uint64 does not fit the integers of the model checker.   *)
(***************************************************************************)
\* Mutation of LittleEndianUint16: the high byte comes first
LittleEndianUint16_BigEndian(b, off) == 256 * b[off + 1] + b[off + 2]

\* binary.LittleEndian.Uint16 of the two bytes that follow offset off
LittleEndianUint16(b, off) == b[off + 1] + 256 * b[off + 2]

\* the unsigned integer of 2n bytes at offset off
Uint(b, off, n) == [j \in 1..n |-> LittleEndianUint16(b, off + 2 * (j - 1))]

\* binary.Read(bytes.NewBuffer(b), binary.LittleEndian, &event) on a buffer
\* of at least RecordSize bytes: the fields of RPCEvent in their order,
\* without padding
binaryRead(b) ==
    [PID |-> Uint(b, 0, 4),
     TimestampNs |-> Uint(b, 8, 4),
     DataLen |-> Uint(b, 16, 2),
     IsSend |-> Uint(b, 20, 2),
     DestIP |-> Uint(b, 24, 2),
     DestPort |-> Uint(b, 28, 1),
     Comm |-> SubSeq(b, 31, 46),
     Data |-> SubSeq(b, 47, 558)]

\* Mutation of CFields: dest_port is declared before dest_ip
CFields_PortBeforeIp ==
    << [name |-> "pid", size |-> 8, count |-> 1],
       [name |-> "timestamp_ns", size |-> 8, count |-> 1],
       [name |-> "data_len", size |-> 4, count |-> 1],
       [name |-> "is_send", size |-> 4, count |-> 1],
       [name |-> "dest_port", size |-> 2, count |-> 1],
       [name |-> "dest_ip", size |-> 4, count |-> 1],
       [name |-> "comm", size |-> 1, count |-> 16],
       [name |-> "data", size |-> 1, count |-> 512] >>

\* struct network_event_t of the probe: its members in their order, each
\* with the size of its scalar type and the number of elements
CFields ==
    << [name |-> "pid", size |-> 8, count |-> 1],
       [name |-> "timestamp_ns", size |-> 8, count |-> 1],
       [name |-> "data_len", size |-> 4, count |-> 1],
       [name |-> "is_send", size |-> 4, count |-> 1],
       [name |-> "dest_ip", size |-> 4, count |-> 1],
       [name |-> "dest_port", size |-> 2, count |-> 1],
       [name |-> "comm", size |-> 1, count |-> 16],
       [name |-> "data", size |-> 1, count |-> 512] >>

\* RPCEvent of the agent: its fields in their order
GoFields ==
    << [name |-> "PID", size |-> 8, count |-> 1],
       [name |-> "TimestampNs", size |-> 8, count |-> 1],
       [name |-> "DataLen", size |-> 4, count |-> 1],
       [name |-> "IsSend", size |-> 4, count |-> 1],
       [name |-> "DestIP", size |-> 4, count |-> 1],
       [name |-> "DestPort", size |-> 2, count |-> 1],
       [name |-> "Comm", size |-> 1, count |-> 16],
       [name |-> "Data", size |-> 1, count |-> 512] >>

AlignUp(n, a) == ((n + a - 1) \div a) * a

\* the C compiler's layout: a member starts at the next multiple of the
\* alignment of its type (the size of the scalar), and the struct ends at
\* the next multiple of its largest alignment
RECURSIVE CEnd(_)
CEnd(i) ==
    IF i = 0 THEN 0
    ELSE AlignUp(CEnd(i - 1), CFields[i].size) + CFields[i].size * CFields[i].count

COffsetOf(i) == AlignUp(CEnd(i - 1), CFields[i].size)

\* sizeof(struct network_event_t), the length bpf_perf_event_output writes
CSizeof ==
    LET CMaxAlign == CHOOSE a \in { CFields[i].size : i \in 1..Len(CFields) } :
                         \A i \in 1..Len(CFields) : CFields[i].size <= a
    IN AlignUp(CEnd(Len(CFields)), CMaxAlign)

\* encoding/binary: the fields follow one another without padding
RECURSIVE GoEnd(_)
GoEnd(i) ==
    IF i = 0 THEN 0 ELSE GoEnd(i - 1) + GoFields[i].size * GoFields[i].count

GoOffsetOf(i) == GoEnd(i - 1)

\* binary.Size(RPCEvent{})
GoSize == GoEnd(Len(GoFields))

\* byte patterns: every byte of a field differs from its neighbours, so that
\* a byte read from the wrong place shows
Pattern(n, k, c) == [i \in 1..n |-> (i * k + c) % 256]

\* the 30 bytes of the integer fields
HeaderBytes ==
    { Pattern(30, 0, 0), Pattern(30, 0, 255), Pattern(30, 7, 3), Pattern(30, 37, 128) }

\* the 16 bytes of comm: "node" and NULs, no NUL at all, NULs only
CommBytes ==
    { [i \in 1..16 |-> IF i <= 4 THEN <<110, 111, 100, 101>>[i] ELSE 0],
      Pattern(16, 5, 65),
      Pattern(16, 0, 0) }

\* the 512 bytes of data: NULs only (the probe copies no payload), bytes of
\* every value with NULs among them, no NUL at all
DataBytes ==
    { Pattern(512, 0, 0), Pattern(512, 3, 1), [i \in 1..512 |-> 1 + (i % 255)] }

\* what follows the record in the sample: nothing, or the two bytes that
\* align the C struct to 8, or those and a further eight
TailBytes == { <<>>, <<0, 0>>, Pattern(10, 1, 200) }

\* samples of RecordSize bytes and more
FullSamples ==
    { h \o c \o d \o t : h \in HeaderBytes, c \in CommBytes, d \in DataBytes,
                         t \in TailBytes }

\* the lengths of the samples cut short
ShortLengths == { 0, 1, 30, 296, RecordSize - 1 }

CodecSamples ==
    FullSamples \cup
    { SubSeq(h \o c \o d, 1, n) :
        h \in HeaderBytes, c \in {Pattern(16, 5, 65)}, d \in {Pattern(512, 3, 1)},
        n \in ShortLengths }

CodecRecords == { [rawLen |-> Len(b), lost |-> 0, raw |-> b] : b \in CodecSamples }

CodecInit == OneRecordRead(CodecRecords)

\* binary.Read into event, byte by byte; on an error log it and continue
DecodeSample ==
    /\ Alive
    /\ wpc = "decode"
    /\ IF DecodeOK(record)
       THEN /\ event' = binaryRead(record.raw)
            /\ wpc' = "resolve"
            /\ UNCHANGED <<decodeFails, wlog>>
       ELSE /\ decodeFails' = decodeFails + 1
            /\ wlog' = "parse_failed"
            /\ wpc' = "loop"
            /\ UNCHANGED event
    /\ UNCHANGED <<mainVars, resVars, cancelled, sigVars, record, hostname, lookupRes,
                   reads, stopRecord, lateReads, extracted, warnings, pubs>>

CodecNext == DecodeSample

CodecSpec == CodecInit /\ [][CodecNext]_vars

\* destination label and subject: every address, port and direction against
\* every answer of the resolver
LabelInit == OneRecordRead(LabelRecords)

LabelResolve == ResolveFrom(FnLookupAnswers)

LabelNext ==
    \/ Decode
    \/ LabelResolve
    \/ Publish

LabelSpec == LabelInit /\ [][LabelNext]_vars

\* method sniffing: every payload of at most MaxParts fragments
SniffInit == OneRecordRead(SniffRecords)

SniffNext ==
    \/ Decode
    \/ Resolve
    \/ Publish

SniffSpec == SniffInit /\ [][SniffNext]_vars

(***************************************************************************)
(* The kernel probe trace_tcp_sendmsg of network_tracer_v2.c, and the      *)
(* agent on the records it emits                                           *)
(***************************************************************************)
MAX_DATA_SIZE == 512

\* calls of tcp_sendmsg: the process, the size argument, the socket's
\* family, address and port, and the bytes the msghdr points to (their head,
\* for the send of 70000 bytes)
Sends ==
    LET CommCurl == <<"c", "u", "r", "l", NUL>>
        PayloadCall == <<"{">> \o FieldCall \o <<"}">>
        \* a JSON-RPC request followed by blanks, longer than MAX_DATA_SIZE
        PayloadLong == PayloadGetBalance \o [i \in 1..573 |-> " "]
    IN
    { [comm |-> c, size |-> Len(p), ipv4 |-> v, ip |-> a, port |-> q, payload |-> p] :
        c \in {CommNode, CommCurl}, v \in BOOLEAN, a \in {IpGelato, IpLocal},
        q \in {443, 8545, 8547, 80},
        p \in {PayloadGetBalance, PayloadCall, PayloadLong, <<"P", "O", "S", "T", " ", "/">>, <<>>} }
    \cup
    { [comm |-> CommNode, size |-> 70000, ipv4 |-> TRUE, ip |-> IpGelato, port |-> 443,
       payload |-> PayloadGetBalance] }

\* trace_tcp_sendmsg: the samples one call puts into the perf buffer (none or
\* one).  event = {} zeroes data; the block that was to read the msghdr
\* computes read_size and copies nothing.  The NULs of data are written as
\* one, as in the other records.  sent is the payload of the call, kept
\* beside the sample for the properties; it is no part of the sample.
trace_tcp_sendmsg(s) ==
    IF SubSeq(s.comm, 1, 4) # <<"n", "o", "d", "e">> THEN {}
    ELSE IF s.size = 0 \/ s.size > 65536 THEN {}
    ELSE IF ~s.ipv4 THEN {}
    ELSE IF s.port \notin AllowedPorts THEN {}
    ELSE { [rawLen |-> CSizeof, lost |-> 0, sent |-> s.payload,
            ev |-> [PID |-> 279776, TimestampNs |-> 1001, DataLen |-> s.size, IsSend |-> 1,
                    DestIP |-> s.ip, DestPort |-> s.port, Comm |-> s.comm,
                    Data |-> <<NUL>>]] }

ProbeRecords == UNION { trace_tcp_sendmsg(s) : s \in Sends }

ProbeInit == OneRecordRead(ProbeRecords)

ProbeNext ==
    \/ Decode
    \/ Resolve
    \/ Publish

ProbeSpec == ProbeInit /\ [][ProbeNext]_vars

(***************************************************************************)
(* The helper extractJSONRPCMethod, which no other function calls, applied *)
(* to the payload of a record                                              *)
(***************************************************************************)
\* bytes.Index(s, sep): the offset, from 0, of the first sep in s, or -1
Index(s, sep) ==
    IF Contains(s, sep)
    THEN (CHOOSE i \in 1..Len(s) :
            /\ HasPrefixAt(s, sep, i)
            /\ \A j \in 1..(i - 1) : ~HasPrefixAt(s, sep, j)) - 1
    ELSE -1

\* s[a:] with offsets from 0; a slice out of range is a run-time panic
SliceFrom(s, a) == SubSeq(s, a + 1, Len(s))

Panic == <<"p", "a", "n", "i", "c">>

Quote == <<"\"">>
MethodColonQuote == MethodKey \o <<":", "\"">>
MethodColonSpaceQuote == MethodKey \o <<":", " ", "\"">>

\* extractJSONRPCMethod(payload); payload[valueStart+1 : valueEnd] is
\* SubSeq(payload, valueStart + 2, valueEnd)
extractJSONRPCMethod(payload) ==
    IF Len(payload) = 0 THEN Unknown
    ELSE LET first == Index(payload, MethodColonQuote)
             methodStart == IF first = -1 THEN Index(payload, MethodColonSpaceQuote)
                            ELSE first
         IN IF methodStart = -1 THEN Unknown
            ELSE LET opening == methodStart + Index(SliceFrom(payload, methodStart), Quote)
                     valueStart == opening + Index(SliceFrom(payload, opening + 1), Quote) + 1
                     valueEnd == valueStart + 1
                                   + Index(SliceFrom(payload, valueStart + 1), Quote)
                 IN IF opening + 1 > Len(payload) \/ valueStart + 1 > Len(payload)
                    THEN Panic
                    ELSE IF valueEnd > valueStart /\ valueEnd < Len(payload)
                    THEN SubSeq(payload, valueStart + 2, valueEnd)
                    ELSE Unknown

\* payloads for the helper: what precedes the field, its key up to the
\* opening quote of the value, the value, and what follows its closing quote
\* Records whose data holds such a payload; key and value are kept beside
\* the sample for the properties.  The last ones hold no field at all, a
\* field cut off in its key or value, and no payload.
HelperRecords ==
    LET HelperHeads ==
            { <<>>, <<"{">>, <<"{", "\"", "i", "d", "\"", ":", "1", ",">>, PostSlash \o <<" ">> }
        HelperKeys ==
            { MethodColonQuote, MethodColonSpaceQuote, MethodKey \o <<" ", ":", "\"">>,
              <<"\"", "p", "a", "r", "a", "m", "s", "\"", ":", "\"">> }
        HelperValues ==
            { EthCall, EthGetBalance,
              <<"n", "e", "t", "_", "v", "e", "r", "s", "i", "o", "n">>, <<>> }
        HelperTails == { <<>>, <<"}">>, <<",", "\"", "i", "d", "\"", ":", "1", "}">> }
    IN
    { [rawLen |-> RecordSize, lost |-> 0, key |-> k, value |-> v,
       ev |-> [PID |-> 279776, TimestampNs |-> 1001, DataLen |-> 342, IsSend |-> 1,
               DestIP |-> IpGelato, DestPort |-> 443, Comm |-> CommNode,
               Data |-> h \o k \o v \o Quote \o t \o <<NUL>>]] :
        h \in HelperHeads, k \in HelperKeys, v \in HelperValues, t \in HelperTails }
    \cup
    { [rawLen |-> RecordSize, lost |-> 0, key |-> <<>>, value |-> <<>>,
       ev |-> [PID |-> 279776, TimestampNs |-> 1001, DataLen |-> 342, IsSend |-> 1,
               DestIP |-> IpGelato, DestPort |-> 443, Comm |-> CommNode,
               Data |-> d \o <<NUL>>]] :
        d \in { <<>>, PostSlash, MethodKey, MethodColonQuote, MethodColonSpaceQuote,
                MethodColonQuote \o EthCall, <<"{", "}">> } }

HelperInit == OneRecordRead(HelperRecords)

\* the helper is called with the payload of the record in hand
CallExtractJSONRPCMethod ==
    /\ Alive
    /\ wpc = "decode"
    /\ extracted = <<>>
    /\ extracted' = <<extractJSONRPCMethod(TrimRightNul(record.ev.Data))>>
    /\ UNCHANGED <<mainVars, resVars, cancelled, sigVars, workerVars, reads, stopRecord,
                   lateReads, wlog, decodeFails, warnings, pubs>>

HelperSpec == HelperInit /\ [][CallExtractJSONRPCMethod]_vars

(***************************************************************************)
(* The uprobe variant of the agent (the second program of agent_main.go).  *)
(* Its main, signal handler, connectNATS and RunTracer are the text of the *)
(* first program with link.Uprobe in the place of link.Kprobe, so the      *)
(* actions above stand for them, the resource "kprobe" being the uprobe    *)
(* link.  Its RPCEvent, worker loop and features are its own.              *)
(***************************************************************************)
\* binary.Size(RPCEvent): PID, TimestampNs, ResponseSize, MethodName, Comm
UprobeRecordSize == 8 + 8 + 8 + 128 + 16

UprobeZeroEvent ==
    [PID |-> 0, TimestampNs |-> 0, ResponseSize |-> 0, MethodName |-> <<>>, Comm |-> <<>>]

\* perf.Records of the uprobe: two samples, one with an empty method name,
\* and one that is too short to decode
UprobeRecords ==
    LET CommGeth == <<"g", "e", "t", "h", NUL>> IN
    { [rawLen |-> UprobeRecordSize, lost |-> 0,
       ev |-> [PID |-> 12345, TimestampNs |-> 2001, ResponseSize |-> 1536,
               MethodName |-> EthGetBalance \o <<NUL>>, Comm |-> CommGeth]],
      [rawLen |-> UprobeRecordSize, lost |-> 0,
       ev |-> [PID |-> 77, TimestampNs |-> 2002, ResponseSize |-> 0,
               MethodName |-> <<NUL>>, Comm |-> CommGeth]],
      [rawLen |-> 100, lost |-> 0, ev |-> UprobeZeroEvent] }

UprobeDecodeOK(rec) == rec.rawLen >= UprobeRecordSize

AppIDText == <<"a", "r", "b", "i", "t", "r", "u", "m", "-", "n", "o", "d", "e", "-", "s", "e", "r", "v", "i", "c", "e">>
StrJsonrpc == <<"j", "s", "o", "n", "r", "p", "c">>
StrResponseSize == <<"r", "e", "s", "p", "o", "n", "s", "e", "-", "s", "i", "z", "e">>
StrMethodColon == <<"m", "e", "t", "h", "o", "d", ":">>

\* the feature processAndPublishRPCEvent builds from an event
UprobeBuildFeature(ev, now) ==
    LET methodName == TrimRightNul(ev.MethodName)
        processName == TrimRightNul(ev.Comm)
    IN [AppID |-> AppIDText,
        Protocol |-> StrJsonrpc,
        FeatureType |-> StrResponseSize,
        Timestamp |-> now,
        Value |-> ev.ResponseSize,
        ContextHash |-> StrMethodColon \o methodName,
        Details |-> [pid |-> ev.PID,
                     process |-> processName,
                     method |-> methodName,
                     timestamp_ns |-> ev.TimestampNs]]

\* Mutation of UprobeSubject: the message goes out under the context hash
UprobeSubject_ContextHash(f) == f.ContextHash

\* PublishFeature: fmt.Sprintf("%s.%s.%s", f.AppID, f.Protocol, f.FeatureType)
UprobeSubject(f) == f.AppID \o <<Dot>> \o f.Protocol \o <<Dot>> \o f.FeatureType

\* the agent is running: startup has succeeded and the worker is at the top
\* of its loop; a signal may have arrived, and have been handled, meanwhile
UprobeInit ==
    /\ mpc = "wait"
    /\ attempt = 0
    /\ waits = <<>>
    /\ res = [r \in Resources |-> "open"]
    /\ acquireLog = <<"nc", "objs", "kprobe", "reader">>
    /\ closeLog = <<>>
    /\ \E h \in { <<0, "wait", FALSE>>, <<1, "wait", FALSE>>, <<0, "cancel", FALSE>>,
                   <<0, "done", TRUE>> } :
         /\ sigChan = h[1]
         /\ hpc = h[2]
         /\ cancelled = h[3]
    /\ wpc = "loop"
    /\ record = ZeroRecord
    /\ reads = <<>>
    /\ event = UprobeZeroEvent
    /\ hostname = <<>>
    /\ lookupRes = NoLookup
    /\ stopRecord = 0
    /\ lateReads = 0
    /\ extracted = <<>>
    /\ wlog = ""
    /\ decodeFails = 0
    /\ warnings = 0
    /\ pubs = <<>>

\* Mutation of UprobeSelect: the loop does not look at the context
UprobeSelect_NoCheck ==
    /\ Alive
    /\ wpc = "loop"
    /\ wpc' = "callRead"
    /\ UNCHANGED <<mainVars, resVars, cancelled, sigVars, record, event, hostname, lookupRes,
                   histVars>>

\* select { case <-a.Ctx.Done(): log, return; default: ... }
UprobeSelect ==
    /\ Alive
    /\ wpc = "loop"
    /\ IF cancelled
       THEN wlog' = "reader_shut_down" /\ wpc' = "returned"
       ELSE wpc' = "callRead" /\ UNCHANGED wlog
    /\ UNCHANGED <<mainVars, resVars, cancelled, sigVars, record, event, hostname, lookupRes,
                   reads, stopRecord, lateReads, extracted, decodeFails, warnings, pubs>>

\* the default branch: a.PerfReader.Read() is called
UprobeIssueRead ==
    /\ Alive
    /\ wpc = "callRead"
    /\ wpc' = "reading"
    /\ lateReads' = IF cancelled THEN lateReads + 1 ELSE lateReads
    /\ UNCHANGED <<mainVars, resVars, cancelled, sigVars, record, event, hostname, lookupRes,
                   reads, stopRecord, extracted, wlog, decodeFails, warnings, pubs>>

\* Read returns a record
UprobeReadRecord ==
    /\ Alive
    /\ wpc = "reading"
    /\ res["reader"] = "open"
    /\ Len(reads) < MaxReads
    /\ \E r \in UprobeRecords :
         /\ record' = r
         /\ reads' = Append(reads, r)
    /\ wpc' = "decode"
    /\ UNCHANGED <<mainVars, resVars, cancelled, sigVars, event, hostname, lookupRes,
                   stopRecord, lateReads, extracted, wlog, decodeFails, warnings, pubs>>

\* binary.Read into event; on an error log it and continue
UprobeDecode ==
    /\ Alive
    /\ wpc = "decode"
    /\ IF UprobeDecodeOK(record)
       THEN /\ event' = record.ev
            /\ wpc' = "publish"
            /\ UNCHANGED <<decodeFails, wlog>>
       ELSE /\ decodeFails' = decodeFails + 1
            /\ wlog' = "parse_failed"
            /\ wpc' = "loop"
            /\ UNCHANGED event
    /\ UNCHANGED <<mainVars, resVars, cancelled, sigVars, record, hostname, lookupRes,
                   reads, stopRecord, lateReads, extracted, warnings, pubs>>

\* processAndPublishRPCEvent: build the feature, PublishFeature (the subject
\* from the feature, json.Marshal, NatsConn.Publish), log an error
UprobePublish ==
    /\ Alive
    /\ wpc = "publish"
    /\ \E accepted \in BOOLEAN :
         LET feature == UprobeBuildFeature(event, Now)
             ok == accepted /\ res["nc"] = "open"
         IN /\ pubs' = Append(pubs, [id |-> Len(reads),
                                     subject |-> UprobeSubject(feature),
                                     feature |-> feature,
                                     ok |-> ok])
            /\ wlog' = IF ok THEN "published" ELSE "publish_failed"
    /\ wpc' = "loop"
    /\ UNCHANGED <<mainVars, resVars, cancelled, sigVars, record, event, hostname, lookupRes,
                   reads, stopRecord, lateReads, extracted, decodeFails, warnings>>

UprobeNext ==
    \/ SignalArrives
    \/ HandlerReceive
    \/ HandlerCancel
    \/ WaitDone
    \/ DeferredKprobeClose
    \/ ClosePerfReader
    \/ CloseObjects
    \/ LogStopped
    \/ DeferredNatsClose
    \/ DeferredCancel
    \/ UprobeSelect
    \/ UprobeIssueRead
    \/ UprobeReadRecord
    \/ ReadError
    \/ ReadClosed
    \/ UprobeDecode
    \/ UprobePublish

UprobeSpec == UprobeInit /\ [][UprobeNext]_vars

(***************************************************************************)
(* Properties                                                              *)
(***************************************************************************)
\* the PublishFeature calls made for the i-th record Read returned
PubsOf(i) == { k \in 1..Len(pubs) : pubs[k].id = i }

\* the loop iteration of the i-th record has run to its end
Completed(i) == i < Len(reads) \/ ~InFlight

CloseCount(r) == Cardinality({ k \in 1..Len(closeLog) : closeLog[k] = r })

\* "Agent stopped gracefully." has been logged
Reported == mpc \in {"deferNc", "deferCancel", "exited"}

\* C1: after any sequence of reads, every record that decoded yields exactly one
\* feature handed to PublishFeature once its iteration has run, a record that
\* failed to decode yields none, and no record ever yields two.
C1_OneFeaturePerDecodedRecord ==
    /\ \A k \in 1..Len(pubs) : pubs[k].id \in 1..Len(reads)
    /\ \A i \in 1..Len(reads) :
         /\ Cardinality(PubsOf(i)) <= 1
         /\ ~DecodeOK(reads[i]) => PubsOf(i) = {}
         /\ (DecodeOK(reads[i]) /\ Completed(i)) => Cardinality(PubsOf(i)) = 1

\* C1 witness: two iterations have run, one record decoded and one did not, and
\* exactly the decoded one was handed to PublishFeature
C1_Witness ==
    /\ Len(reads) = 2
    /\ wpc = "loop"
    /\ DecodeOK(reads[1])
    /\ ~DecodeOK(reads[2])
    /\ Len(pubs) = 1
    /\ pubs[1].id = 1

\* C2 (as claimed): an event whose destination port is outside {443, 8545, 8547}
\* is filtered by processAndPublishRPCEvent: no PublishFeature call carries
\* such a port.
C2_UnlistedPortNeverPublished ==
    \A k \in 1..Len(pubs) : pubs[k].feature.Details.dest_port \in AllowedPorts

\* C3 (as claimed): if the context was cancelled while the worker was
\* processing a record it had read, then by the time main has released the
\* resources and returned, the processing of that record has run to its end.
C3_RecordCompletedBeforeStopped ==
    (mpc = "exited" /\ stopRecord > 0) => Completed(stopRecord)

\* C4 (as claimed): when the agent has reported that it stopped, every held
\* resource has been closed exactly once.
C4_AllClosedWhenReported ==
    Reported => \A r \in Resources : CloseCount(r) = 1

\* C4 (amended): no resource is ever closed twice or closed without having been
\* acquired; when the agent reports that it stopped the kprobe, the perf reader
\* and the eBPF objects have been closed once; the bus connection is closed
\* once by the time main returns.
C4_ClosedExactlyOnce ==
    /\ \A r \in Resources : CloseCount(r) <= 1
    /\ \A r \in Resources : CloseCount(r) = 1 <=> res[r] = "closed"
    /\ Reported => \A r \in {"kprobe", "reader", "objs"} : CloseCount(r) = 1
    /\ mpc = "exited" => \A r \in Resources : CloseCount(r) = 1

\* C4 witness: a signal was handled and main has returned with all four
\* resources closed
C4_Witness ==
    /\ hpc = "done"
    /\ mpc = "exited"
    /\ \A r \in Resources : res[r] = "closed"

\* C5 (as claimed): once the context is cancelled, the loop, having read a
\* record, issues no new PerfReader.Read call.
C5_NoReadAfterStop ==
    [][(wpc = "loop" /\ wpc' = "reading" /\ reads # <<>>) => ~cancelled]_vars

\* C6 (as claimed): at shutdown the owned resources are closed in the reverse
\* of their acquisition order: perf reader, kprobe, eBPF objects.
C6_ReverseAcquisitionOrder ==
    mpc = "exited" =>
        SelectSeq(closeLog, LAMBDA r : r # "nc") = <<"reader", "kprobe", "objs">>

\* C7: the loop ends only when Read reports perf.ErrClosed: the worker has
\* returned only with the reader closed and "reader closed" as its last line,
\* never after a read error, a decode error or a publish error.
C7_LoopEndsOnlyOnClosed ==
    /\ wpc = "returned" => (wlog = "reader_closed" /\ res["reader"] = "closed")
    /\ wlog \in {"read_error", "parse_failed", "publish_failed"} => wpc # "returned"
    /\ wlog = "reader_closed" => wpc = "returned"

\* C7 witness: the worker has returned after a run in which a decode failed and
\* a publish failed
C7_Witness ==
    /\ wpc = "returned"
    /\ decodeFails > 0
    /\ \E k \in 1..Len(pubs) : ~pubs[k].ok

\* the event of the last record that decoded among the first n
RECURSIVE LastDecoded(_)
LastDecoded(n) ==
    IF n = 0 THEN ZeroEvent
    ELSE IF DecodeOK(reads[n]) THEN reads[n].ev
    ELSE LastDecoded(n - 1)

\* C8: a decode failure is not fatal: the failed record causes no publish call,
\* every published feature is built from a record that decoded (the feature
\* just published from all the fields of its own record), the failed decode
\* leaves the event variable as it was, and the loop goes on.
C8_DecodeFailureDropsRecord ==
    /\ \A i \in 1..Len(reads) : ~DecodeOK(reads[i]) => PubsOf(i) = {}
    /\ \A k \in 1..Len(pubs) :
         /\ pubs[k].id \in 1..Len(reads)
         /\ DecodeOK(reads[pubs[k].id])
         /\ pubs[k].feature.Details.timestamp_ns = reads[pubs[k].id].ev.TimestampNs
    /\ (wpc = "loop" /\ pubs # <<>>) =>
         LET p == pubs[Len(pubs)] IN
         p.feature = BuildFeature(reads[p.id].ev, p.feature.Details.dest_hostname,
                                 p.feature.Timestamp)
    /\ ~InFlight => event = LastDecoded(Len(reads))
    /\ wlog = "parse_failed" => wpc # "returned"
    /\ decodeFails =
         Cardinality({ i \in 1..Len(reads) : ~DecodeOK(reads[i]) /\ Completed(i) })

\* C8 witness: the first record failed to decode, the loop read a second one
\* and only that one was published
C8_Witness ==
    /\ Len(reads) = 2
    /\ ~DecodeOK(reads[1])
    /\ reads[1].lost = 0
    /\ DecodeOK(reads[2])
    /\ Len(pubs) = 1
    /\ pubs[1].id = 2

\* C9: a publish failure is dropped: the PublishFeature calls are for strictly
\* increasing records (at most one per record, none repeated or replayed
\* later), and a failure does not end the loop.
C9_PublishFailureDropped ==
    /\ \A k \in 1..Len(pubs) : \A l \in 1..Len(pubs) :
         k < l => pubs[k].id < pubs[l].id
    /\ wlog = "publish_failed" => (wpc # "returned" /\ ~pubs[Len(pubs)].ok)
    /\ (wpc = "loop" /\ wlog \in {"published", "publish_failed"}) =>
         pubs[Len(pubs)].id = Len(reads)

\* C9 witness: the publish of the first record failed, and the loop went on to
\* read and publish the second
C9_Witness ==
    /\ Len(pubs) = 2
    /\ ~pubs[1].ok
    /\ pubs[1].id = 1
    /\ pubs[2].ok
    /\ pubs[2].id = 2

\* the records with a loss count whose warning the worker has had to log
LossReports ==
    { i \in 1..Len(reads) : reads[i].lost > 0 /\ (i < Len(reads) \/ wpc # "lost") }

\* C10: every read that reports a loss count is answered by one warning, and
\* the worker goes on from it to the decode step: it never returns because of
\* a loss report.
C10_LossReportDoesNotHalt ==
    /\ warnings = Cardinality(LossReports)
    /\ wlog = "lost_warning" => wpc \in {"decode", "resolve", "publish"}

\* C10 witness: the first read reported lost samples, one warning was logged,
\* and the loop read the next record and published it
C10_Witness ==
    /\ Len(reads) = 2
    /\ reads[1].lost > 0
    /\ warnings = 1
    /\ Len(pubs) = 1
    /\ pubs[1].id = 2

\* connectNATS is running or has returned its error to main, which aborted
Connecting == res["nc"] = "none"

\* a step of connectNATS
C11_Step ==
    /\ attempt' # attempt => (mpc = "connect" /\ attempt < 5)
    /\ (mpc = "connect" /\ mpc' # "connect") =>
         IF attempt = 5
         THEN mpc' = "fatal" /\ res'["nc"] = "none"
         ELSE mpc' = "memlock" /\ res'["nc"] = "open"
    /\ (mpc = "connect" /\ attempt < 5 /\ attempt' # attempt) =>
         \/ attempt' = attempt + 1 /\ mpc' = "connect" /\ res'["nc"] = "none"
         \/ res'["nc"] = "open" /\ mpc' = "memlock"

\* C11: connectNATS makes at most 5 attempts; while it is still attempting no
\* attempt has succeeded (it returns at the first success and attempts no
\* more); it returns its error exactly when 5 attempts have failed, and main
\* then aborts: the process never goes on without a connection.
C11_BoundedConnect ==
    /\ [](/\ attempt \in 0..5
          /\ mpc = "connect" => (Connecting /\ Len(waits) = attempt)
          /\ (mpc = "fatal" /\ Connecting) => attempt = 5
          /\ (Connecting /\ attempt = 5) => mpc \in {"connect", "fatal"}
          /\ ~Connecting => mpc # "connect"
          /\ mpc \notin {"connect", "fatal"} => ~Connecting)
    /\ [][C11_Step]_vars

\* C11 witness: five attempts failed and main aborted without a connection
C11_Witness ==
    /\ mpc = "fatal"
    /\ Connecting
    /\ Len(waits) = 5

\* C12: the wait after the i-th failed attempt is 2^(i-1) seconds: each wait
\* doubles the previous one, the first is 1 and none exceeds 16.
C12_ExponentialBackoff ==
    /\ Len(waits) <= 5
    /\ \A i \in 1..Len(waits) :
         /\ waits[i] = 2^(i - 1)
         /\ waits[i] <= 16
         /\ i > 1 => waits[i] = 2 * waits[i - 1]

\* C12 witness: all five waits were taken: 1, 2, 4, 8, 16 seconds
C12_Witness == waits = <<1, 2, 4, 8, 16>>

Resolved == wpc \in {"publish", "loop"} /\ reads # <<>> /\ DecodeOK(reads[Len(reads)])

\* the net.LookupAddr call found no usable name
LookupFailed == lookupRes.err \/ Len(lookupRes.names) = 0

RECURSIVE SplitOn(_, _)
\* the pieces of s between the occurrences of the character sep
SplitOn(s, sep) ==
    IF \A i \in 1..Len(s) : s[i] # sep THEN <<s>>
    ELSE LET i == CHOOSE k \in 1..Len(s) : s[k] = sep /\ \A j \in 1..(k - 1) : s[j] # sep
         IN <<SubSeq(s, 1, i - 1)>> \o SplitOn(SubSeq(s, i + 1, Len(s)), sep)

DigitValue(c) == CHOOSE d \in 0..9 : Digits[d + 1] = c

RECURSIVE DecValue(_)
\* the number a string of decimal digits denotes
DecValue(s) ==
    IF s = <<>> THEN 0
    ELSE 10 * DecValue(SubSeq(s, 1, Len(s) - 1)) + DigitValue(Last(s))

\* a decimal numeral as %d prints it
IsNumeral(s) ==
    /\ s # <<>>
    /\ \A i \in 1..Len(s) : s[i] \in DigitChars
    /\ (Len(s) > 1 => s[1] # "0")

\* the four bytes of a uint32, lowest first
Octets(ip) ==
    <<ip % 256, (ip \div 256) % 256, (ip \div 65536) % 256, (ip \div 16777216) % 256>>

CountOf(s, c) == Cardinality({ i \in 1..Len(s) : s[i] = c })

\* C14: when the reverse lookup fails or returns no name, the label is the
\* dotted address with each '.' replaced by '-': four decimal octets joined by
\* hyphens, the bytes of DestIP in the order ipToString prints them (lowest
\* first), and position by position the published dest_ip with '-' for '.'.
\* The function has no error result: the worker goes on to publish.
C14_FallbackIsHyphenatedAddress ==
    (Resolved /\ LookupFailed) =>
        LET parts == SplitOn(hostname, Hyphen) IN
        /\ Len(parts) = 4
        /\ \A i \in 1..4 :
             /\ IsNumeral(parts[i])
             /\ DecValue(parts[i]) = Octets(event.DestIP)[i]
        /\ CountOf(hostname, Dot) = 0
        /\ \A k \in 1..Len(pubs) :
             LET ip == pubs[k].feature.Details.dest_ip IN
             /\ pubs[k].feature.Details.dest_hostname = hostname
             /\ Len(ip) = Len(hostname)
             /\ CountOf(ip, Dot) = 3
             /\ \A i \in 1..Len(ip) :
                  hostname[i] = IF ip[i] = Dot THEN Hyphen ELSE ip[i]

\* C14 witness: the lookup of 34.185.237.112 failed and the record was
\* published under the label 34-185-237-112
C14_Witness ==
    /\ wpc = "loop"
    /\ lookupRes.err
    /\ event.DestIP = IpGelato
    /\ Len(pubs) = 1
    /\ pubs[1].feature.Details.dest_hostname = <<"3", "4", "-", "1", "8", "5", "-", "2", "3", "7", "-", "1", "1", "2">>

\* C15: whatever name the resolver returned, and whatever the address, the
\* label contains no '.' and does not end with a separator (neither a '.' nor
\* the '-' that would stand for a trailing '.').
C15_LabelSanitized ==
    Resolved =>
        /\ CountOf(hostname, Dot) = 0
        /\ hostname # <<>> => Last(hostname) \notin {Dot, Hyphen}

\* C15 witness: the resolver returned rpc.gelato.digital. with its trailing dot
\* and the label is rpc-gelato-digital
C15_Witness ==
    /\ Resolved
    /\ ~LookupFailed
    /\ lookupRes.names[1] = HostFqdn
    /\ hostname = <<"r", "p", "c", "-", "g", "e", "l", "a", "t", "o", "-", "d", "i", "g", "i", "t", "a", "l">>

\* C16: no subject handed to PublishFeature contains whitespace or a wildcard
\* character ('*' or '>'), and none has a '.' besides the four that separate
\* its five segments.
C16_SubjectHasNoInvalidCharacter ==
    \A k \in 1..Len(pubs) :
        /\ \A i \in 1..Len(pubs[k].subject) :
             pubs[k].subject[i] \notin SpaceChars \cup {"*", ">", NUL}
        /\ CountOf(pubs[k].subject, Dot) = 4
        /\ pubs[k].subject = pubs[k].feature.ContextHash

\* C16 witness: a record was published after the resolver's answer held a name
\* that is not a domain name (the hostname is unresolved)
C16_Witness ==
    /\ Len(pubs) = 1
    /\ lookupRes = [err |-> TRUE, names |-> <<HostFqdn>>]
    /\ pubs[1].feature.Details.dest_hostname = <<"3", "4", "-", "1", "8", "5", "-", "2", "3", "7", "-", "1", "1", "2">>

\* C17 (as claimed): every subject has exactly five non-empty dot-delimited
\* segments: rpc, the destination label, https or http, the method or unknown,
\* request_size or response_size.
C17_SubjectGrammar ==
    \A k \in 1..Len(pubs) :
        LET seg == SplitOn(pubs[k].subject, Dot) IN
        /\ Len(seg) = 5
        /\ \A i \in 1..5 : seg[i] # <<>>
        /\ seg[1] = StrRpc
        /\ seg[3] \in {StrHttps, StrHttp}
        /\ seg[5] \in {StrRequest \o StrSizeSuffix, StrResponse \o StrSizeSuffix}

\* the payload text of the k-th PublishFeature call and the method it carries
PayloadOf(k) == TrimRightNul(reads[pubs[k].id].ev.Data)

MethodOf(k) == pubs[k].feature.Details.method

\* the string p occurs in s
Occurs(p, s) == \E i \in 1..(Len(s) - Len(p) + 1) : SubSeq(s, i, i + Len(p) - 1) = p

\* the end of the run of characters of class that starts at i
RunEnd(s, i, class) ==
    CHOOSE j \in i..(Len(s) + 1) :
        /\ j = Len(s) + 1 \/ s[j] \notin class
        /\ \A k \in i..(j - 1) : s[k] \in class

\* the key "method" stands at i
KeyAt(s, i) == i + 7 <= Len(s) /\ SubSeq(s, i, i + 7) = MethodKey

\* the value of the field whose key "method" stands at i: the text between
\* the quotes that follow the colon, when it begins with eth_; <<>> otherwise
FieldValueAt(s, i) ==
    LET a == RunEnd(s, i + 8, SpaceChars) IN
    IF a > Len(s) \/ s[a] # ":" THEN <<>>
    ELSE LET b == RunEnd(s, a + 1, SpaceChars) IN
         IF b > Len(s) \/ s[b] # "\"" THEN <<>>
         ELSE IF \A j \in (b + 1)..Len(s) : s[j] # "\"" THEN <<>>
         ELSE LET e == CHOOSE j \in (b + 1)..Len(s) :
                           s[j] = "\"" /\ \A k \in (b + 1)..(j - 1) : s[k] # "\""
                  v == SubSeq(s, b + 1, e - 1)
              IN IF Len(v) >= 4 /\ SubSeq(v, 1, 4) = EthPrefix THEN v ELSE <<>>

\* the positions of the method fields whose value begins with eth_
EthFields(s) == { i \in 1..Len(s) : KeyAt(s, i) /\ FieldValueAt(s, i) # <<>> }

\* eth_ followed by one or more letters, digits or underscores
IsMethodName(v) == Len(v) > 4 /\ \A k \in 1..Len(v) : v[k] \in WordChars

\* the positions of the method fields whose value is such a name
NamedFields(s) == { i \in EthFields(s) : IsMethodName(FieldValueAt(s, i)) }

Least(S) == CHOOSE i \in S : \A j \in S : i <= j

\* C18 (as claimed): if the payload contains a method field whose value begins
\* with eth_, the method is the value of the first such field.
C18_FirstEthFieldWins ==
    \A k \in 1..Len(pubs) :
        EthFields(PayloadOf(k)) # {} =>
            MethodOf(k) = FieldValueAt(PayloadOf(k), Least(EthFields(PayloadOf(k))))

\* C18 (amended): if the payload contains a method field whose value is eth_
\* followed by one or more letters, digits or underscores, the method is the
\* value of the first such field, whatever follows it in the payload and
\* whatever the substring table would find.
C18_FirstNamedFieldWins ==
    \A k \in 1..Len(pubs) :
        NamedFields(PayloadOf(k)) # {} =>
            MethodOf(k) = FieldValueAt(PayloadOf(k), Least(NamedFields(PayloadOf(k))))

\* C18 witness: the payload holds the field "method" : "eth_getBalance", then
\* "POST /", then the field "method":"eth_call"; the method is eth_getBalance
C18_Witness ==
    /\ Len(pubs) = 1
    /\ PayloadOf(1) = FieldGetBalanceSpaced \o PostSlash \o FieldCall
    /\ MethodOf(1) = EthGetBalance

\* the result of the substring table: the first of eth_call,
\* eth_sendTransaction, eth_getBalance that occurs in the payload
TableResult(s) ==
    IF Occurs(EthCall, s) THEN EthCall
    ELSE IF Occurs(EthSendTransaction, s) THEN EthSendTransaction
    ELSE IF Occurs(EthGetBalance, s) THEN EthGetBalance
    ELSE Unknown

\* C19 (as claimed): a payload that contains no method field yields "unknown".
C19_NoMethodFieldIsUnknown ==
    \A k \in 1..Len(pubs) :
        ~Occurs(MethodKey, PayloadOf(k)) => MethodOf(k) = Unknown

\* C19 (amended): a payload that contains no method field yields "unknown"
\* unless it contains "POST /" together with one of the three known method
\* names.
C19_NoMethodFieldNoPostIsUnknown ==
    \A k \in 1..Len(pubs) :
        (/\ ~Occurs(MethodKey, PayloadOf(k))
         /\ ~(Occurs(PostSlash, PayloadOf(k)) /\ TableResult(PayloadOf(k)) # Unknown))
            => MethodOf(k) = Unknown

\* C19 witness: the payload is eth_call followed by eth_getBalance, with no
\* method field and no "POST /"; the method is unknown
C19_Witness ==
    /\ Len(pubs) = 1
    /\ PayloadOf(1) = EthCall \o EthGetBalance
    /\ MethodOf(1) = Unknown

\* C20 (as claimed): when no method field matches, the method is the first
\* entry of the substring table that occurs in the payload, and "unknown"
\* only if none occurs.
C20_FallbackTable ==
    \A k \in 1..Len(pubs) :
        NamedFields(PayloadOf(k)) = {} => MethodOf(k) = TableResult(PayloadOf(k))

\* C20 (amended): when no method field matches, the substring table is
\* consulted only if the payload contains "POST /": then the method is the
\* first of eth_call, eth_sendTransaction, eth_getBalance that occurs in the
\* payload; it is "unknown" if "POST /" is absent or no entry occurs.
C20_FallbackTableAfterPost ==
    \A k \in 1..Len(pubs) :
        NamedFields(PayloadOf(k)) = {} =>
            MethodOf(k) = IF Occurs(PostSlash, PayloadOf(k))
                          THEN TableResult(PayloadOf(k))
                          ELSE Unknown

\* C20 witness: the payload is "POST /", eth_getBalance, eth_call, with no
\* method field; the method is eth_call, the earlier entry of the table
C20_Witness ==
    /\ Len(pubs) = 1
    /\ PayloadOf(1) = PostSlash \o EthGetBalance \o EthCall
    /\ MethodOf(1) = EthCall

\* C21: a record with IsSend = 1 is published with feature_type and last
\* subject segment "request_size" and details.direction "send", a record with
\* IsSend = 0 with "response_size" and "recv"; feature_type and the last
\* subject segment are always the same.
C21_DirectionMapping ==
    \A k \in 1..Len(pubs) :
        LET ev == reads[pubs[k].id].ev
            f == pubs[k].feature
            segments == SplitOn(pubs[k].subject, Dot)
        IN /\ ev.IsSend = 1 =>
                /\ f.FeatureType = StrRequest \o StrSizeSuffix
                /\ f.Details.direction = StrSend
           /\ ev.IsSend = 0 =>
                /\ f.FeatureType = StrResponse \o StrSizeSuffix
                /\ f.Details.direction = StrRecv
           /\ Last(segments) = f.FeatureType

\* C21 witness: one record of each direction is seen published; here the sent
\* one, under a subject ending in request_size
C21_Witness ==
    /\ Len(pubs) = 1
    /\ reads[1].ev.IsSend = 1
    /\ pubs[1].feature.Details.direction = StrSend
    /\ Last(SplitOn(pubs[1].subject, Dot)) = StrRequest \o StrSizeSuffix

\* C22: a record to port 443 is published with protocol segment "https", a
\* record to port 8545 or 8547 with "http", and no published subject carries
\* "https" for a port other than 443.
C22_ProtocolInference ==
    \A k \in 1..Len(pubs) :
        LET port == reads[pubs[k].id].ev.DestPort
            protocol == SplitOn(pubs[k].subject, Dot)[3]
        IN /\ port = 443 => protocol = StrHttps
           /\ port \in {8545, 8547} => protocol = StrHttp
           /\ protocol = StrHttps => port = 443

\* the field "method":"eth_getBalance" as it stands in a request
GetBalanceField ==
    <<"\"", "m", "e", "t", "h", "o", "d", "\"", ":", "\"">> \o EthGetBalance \o <<"\"">>

\* the subject and the sizes the scenario names, for the record i
PublishedAsGetBalanceRequest(i) ==
    /\ Cardinality(PubsOf(i)) = 1
    /\ \A k \in PubsOf(i) :
         /\ SplitOn(pubs[k].subject, Dot) =
              <<StrRpc, pubs[k].feature.Details.dest_hostname, StrHttps,
                EthGetBalance, StrRequest \o StrSizeSuffix>>
         /\ pubs[k].feature.Value = reads[i].ev.DataLen
         /\ pubs[k].feature.Details.size_bytes = reads[i].ev.DataLen

\* a Send record to port 443 that decoded and whose iteration has run
SendTo443(i) ==
    /\ DecodeOK(reads[i])
    /\ Completed(i)
    /\ reads[i].ev.IsSend = 1
    /\ reads[i].ev.DestPort = 443

\* C23 (as claimed): a Send record to port 443 whose payload contains
\* "method":"eth_getBalance" and whose declared length is L is published
\* exactly once, under rpc.<label>.https.eth_getBalance.request_size, with
\* value L and details.size_bytes L, also when L exceeds the 512 captured bytes.
C23_GetBalanceScenario ==
    \A i \in 1..Len(reads) :
        (SendTo443(i) /\ Occurs(GetBalanceField, TrimRightNul(reads[i].ev.Data)))
            => PublishedAsGetBalanceRequest(i)

\* C23 (amended): the same, for a payload whose first eth_ method field is
\* "method":"eth_getBalance".
C23_GetBalanceFirstFieldScenario ==
    \A i \in 1..Len(reads) :
        LET payload == TrimRightNul(reads[i].ev.Data) IN
        (/\ SendTo443(i)
         /\ NamedFields(payload) # {}
         /\ FieldValueAt(payload, Least(NamedFields(payload))) = EthGetBalance)
            => PublishedAsGetBalanceRequest(i)

\* C23 witness: the record declares 70000 bytes, more than the 512 captured,
\* and is published once with value 70000 under the eth_getBalance subject
C23_Witness ==
    /\ Len(pubs) = 1
    /\ reads[1].ev.IsSend = 1
    /\ reads[1].ev.DestPort = 443
    /\ reads[1].ev.DataLen = 70000
    /\ TrimRightNul(reads[1].ev.Data) = PayloadGetBalance
    /\ pubs[1].feature.Value = 70000
    /\ pubs[1].feature.Details.method = EthGetBalance

\* the characters json.Marshal writes into a string as they are, among those
\* a subject is made of
PlainChars == WordChars \cup {Dot, Hyphen}

\* C24: each message goes out under the subject that its own context_hash
\* field carries, and that subject is the one computed for the record being
\* published: its protocol, method and metric segments are those of this
\* record, its label the one in the details of this feature.
C24_SubjectIsContextHash ==
    /\ \A k \in 1..Len(pubs) : pubs[k].subject = pubs[k].feature.ContextHash
    /\ (wpc = "loop" /\ wlog \in {"published", "publish_failed"}) =>
         LET p == pubs[Len(pubs)]
             ev == reads[p.id].ev
             method == p.feature.Details.method
         IN /\ p.id = Len(reads)
            /\ \A j \in 1..Len(p.subject) : p.subject[j] \in PlainChars
            /\ SplitOn(p.subject, Dot) =
                 <<StrRpc,
                   p.feature.Details.dest_hostname,
                   IF ev.DestPort \in {8545, 8547} THEN StrHttp ELSE StrHttps,
                   method,
                   (IF ev.IsSend = 1 THEN StrRequest ELSE StrResponse) \o StrSizeSuffix>>
            /\ method # Unknown => Occurs(method, ev.Data)
            /\ ~Occurs(EthPrefix, ev.Data) => method = Unknown

\* C24 witness: two different records were published one after the other,
\* each under its own subject
C24_Witness ==
    /\ Len(pubs) = 2
    /\ reads[1] # reads[2]
    /\ pubs[1].subject # pubs[2].subject
    /\ pubs[2].subject = pubs[2].feature.ContextHash
    /\ pubs[2].feature.Details.method = EthCall

\* the two bytes of each 16-bit digit, low byte first
UintBytes(digits) ==
    [i \in 1..(2 * Len(digits)) |->
        IF i % 2 = 1 THEN digits[(i + 1) \div 2] % 256 ELSE digits[i \div 2] \div 256]

\* binary.Write(binary.LittleEndian, ev): the encoding of an RPCEvent
binaryWrite(ev) ==
    UintBytes(ev.PID) \o UintBytes(ev.TimestampNs) \o UintBytes(ev.DataLen)
        \o UintBytes(ev.IsSend) \o UintBytes(ev.DestIP) \o UintBytes(ev.DestPort)
        \o ev.Comm \o ev.Data

\* C25: for every buffer of exactly the record size, encoding the decoded
\* event (little-endian, fields in the order PID, TimestampNs, DataLen,
\* IsSend, DestIP, DestPort, Comm, Data) gives the buffer back, byte for byte.
C25_DecodeRoundTrip ==
    (wpc = "resolve" /\ record.rawLen = RecordSize) =>
        /\ Len(binaryWrite(event)) = RecordSize
        /\ \A i \in 1..RecordSize : binaryWrite(event)[i] = record.raw[i]

\* C25 witness: a buffer of 558 bytes with no two neighbouring bytes alike
\* and the top bytes of its integers set has been decoded
C25_Witness ==
    /\ wpc = "resolve"
    /\ record.rawLen = RecordSize
    /\ record.raw[8] # 0
    /\ record.raw[30] # record.raw[29]
    /\ event.DestPort = <<record.raw[29] + 256 * record.raw[30]>>

\* the decode step on the record in hand has failed: the error is logged,
\* the event variable is as it was, and the loop goes on to the next read
DecodeFailed ==
    /\ wpc = "loop"
    /\ wlog = "parse_failed"
    /\ decodeFails = 1
    /\ event = ZeroEvent
    /\ pubs = <<>>

CString(s) ==
    IF \A i \in 1..Len(s) : s[i] # NUL THEN s
    ELSE SubSeq(s, 1, Least({ i \in 1..Len(s) : s[i] = NUL }) - 1)

\* C27: Comm and Data are decoded as C strings: the process name published
\* is Comm up to its first NUL and holds no NUL, and the method is sniffed
\* from Data up to its first NUL.
C27_CStringFields ==
    \A k \in 1..Len(pubs) :
        LET ev == reads[pubs[k].id].ev
            d == pubs[k].feature.Details
        IN /\ CountOf(d.process, NUL) = 0
           /\ d.process = CString(ev.Comm)
           /\ d.method = extractETHMethodFromPayload(CString(ev.Data))

\* the dotted address with '-' for every '.'
Hyphenated(ip) == [i \in 1..Len(ip) |-> IF ip[i] = Dot THEN Hyphen ELSE ip[i]]

\* C28: every decoded event, its fields all zero or garbage included, comes
\* out of processAndPublishRPCEvent as one feature: the method is an eth_
\* name or "unknown" ("unknown" whenever the payload holds no "eth_"), the
\* address is four numerals, the label is the hyphenated address whenever the
\* lookup gave no name, and the sizes, port and pid are those of the event.
C28_ExtractionTotal ==
    /\ (wpc = "loop" /\ DecodeOK(reads[1])) => Len(pubs) = 1
    /\ \A k \in 1..Len(pubs) :
         LET ev == reads[pubs[k].id].ev
             f == pubs[k].feature
             d == f.Details
             ip == SplitOn(d.dest_ip, Dot)
         IN /\ d.method = Unknown \/ (Len(d.method) > 4 /\ IsMethodName(d.method))
            /\ ~Occurs(EthPrefix, ev.Data) => d.method = Unknown
            /\ Len(ip) = 4
            /\ \A i \in 1..4 : IsNumeral(ip[i]) /\ DecValue(ip[i]) = Octets(ev.DestIP)[i]
            /\ LookupFailed => d.dest_hostname = Hyphenated(d.dest_ip)
            /\ f.FeatureType \in {StrRequest \o StrSizeSuffix, StrResponse \o StrSizeSuffix}
            /\ f.Value = ev.DataLen
            /\ d.size_bytes = ev.DataLen
            /\ d.dest_port = ev.DestPort
            /\ d.pid = ev.PID

\* C28 witness: the event whose bytes are all zero, its lookup failed, is
\* published with method unknown under the label 0-0-0-0
C28_Witness ==
    /\ Len(pubs) = 1
    /\ reads[1].ev.Comm = <<NUL, NUL>>
    /\ reads[1].ev.DestIP = 0
    /\ lookupRes.err
    /\ pubs[1].feature.Details.method = Unknown
    /\ pubs[1].feature.Details.process = <<>>
    /\ pubs[1].subject = StrRpc \o <<".", "0", "-", "0", "-", "0", "-", "0", ".">> \o StrHttps
                           \o <<".">> \o Unknown \o <<".">> \o StrResponse \o StrSizeSuffix

\* C29: the worker has one record in hand at a time: the record in flight is
\* the one read last, every record read before it has been through all its
\* steps (its publish call made if it decoded), nothing of a record is
\* published before its own steps are reached, and the publish calls follow
\* the order in which the records were read.
C29_OneRecordAtATime ==
    /\ InFlight => (reads # <<>> /\ record = reads[Len(reads)])
    /\ \A i \in 1..(Len(reads) - 1) : DecodeOK(reads[i]) => PubsOf(i) # {}
    /\ wpc \in {"lost", "decode", "resolve", "publish"} => PubsOf(Len(reads)) = {}
    /\ \A k \in 1..(Len(pubs) - 1) : pubs[k].id < pubs[k + 1].id

\* C29 witness: the second record is in the worker's hands, not yet
\* published, and the first one has been published
C29_Witness ==
    /\ Len(reads) = 2
    /\ wpc = "publish"
    /\ Len(pubs) = 1
    /\ pubs[1].id = 1
    /\ DecodeOK(reads[2])

\* two publish calls were made for equal records with equal labels
SameInputs(k, l) ==
    /\ reads[pubs[k].id] = reads[pubs[l].id]
    /\ pubs[k].feature.Details.dest_hostname = pubs[l].feature.Details.dest_hostname

\* the feature without its wall-clock timestamp
Untimed(f) == [f EXCEPT !.Timestamp = 0]

\* the fields of the feature p.feature are those of the record it was
\* published for
FromOwnRecord(p) ==
    LET ev == reads[p.id].ev
        d == p.feature.Details
        ip == SplitOn(d.dest_ip, Dot)
    IN /\ d.pid = ev.PID
       /\ d.timestamp_ns = ev.TimestampNs
       /\ d.size_bytes = ev.DataLen
       /\ p.feature.Value = ev.DataLen
       /\ d.dest_port = ev.DestPort
       /\ Len(ip) = 4
       /\ \A i \in 1..4 : DecValue(ip[i]) = Octets(ev.DestIP)[i]
       /\ d.direction = IF ev.IsSend = 1 THEN StrSend ELSE StrRecv
       /\ (d.process = <<>> \/ Last(d.process) # NUL)
       /\ Len(d.process) <= Len(ev.Comm)
       /\ \A i \in 1..Len(ev.Comm) :
            ev.Comm[i] = IF i <= Len(d.process) THEN d.process[i] ELSE NUL
       /\ (d.method # Unknown => Occurs(d.method, ev.Data))

\* C30 (as claimed): equal records with equal resolver answers are published
\* under the same subject and with the same feature, whatever was processed
\* before them.
C30_FeatureDependsOnRecordOnly ==
    \A k \in 1..Len(pubs) : \A l \in 1..Len(pubs) :
        SameInputs(k, l) =>
            /\ pubs[k].subject = pubs[l].subject
            /\ pubs[k].feature = pubs[l].feature

\* C30 (amended): equal records with equal resolver answers are published
\* under the same subject and with features that differ in nothing but the
\* wall-clock timestamp, whatever was processed before them, and every field
\* of a feature other than the timestamp and the label comes from the record
\* it is published for.  Each publish call is compared, when it has just
\* been made, with all the calls before it.
C30_FeatureDependsOnRecordAndClock ==
    (wpc = "loop" /\ wlog \in {"published", "publish_failed"}) =>
        /\ \A k \in 1..(Len(pubs) - 1) :
             SameInputs(k, Len(pubs)) =>
                 /\ pubs[k].subject = pubs[Len(pubs)].subject
                 /\ Untimed(pubs[k].feature) = Untimed(pubs[Len(pubs)].feature)
        /\ FromOwnRecord(pubs[Len(pubs)])

\* C30 witness: the same record was read twice and published twice with the
\* same label: same subject, same fields, another timestamp
C30_Witness ==
    /\ Len(pubs) = 2
    /\ SameInputs(1, 2)
    /\ pubs[1].subject = pubs[2].subject
    /\ pubs[1].feature.Timestamp # pubs[2].feature.Timestamp
    /\ Untimed(pubs[1].feature) = Untimed(pubs[2].feature)

\* the lifecycle state the main goroutine is in: 0 Idle (nothing attached),
\* 1 Attached (kprobe attached, loop not begun), 2 Running (worker started,
\* main waits), 3 Draining (RunTracer has returned, resources are released),
\* 4 Stopped (main has returned); 5 stands for the abort of a failed startup
Lifecycle ==
    IF mpc \in {"connect", "memlock", "load", "kprobe"} THEN 0
    ELSE IF mpc \in {"newreader", "spawn"} THEN 1
    ELSE IF mpc = "wait" THEN 2
    ELSE IF mpc \in {"deferKp", "closeReader", "closeObjs", "logStopped", "deferNc",
                     "deferCancel"} THEN 3
    ELSE IF mpc = "exited" THEN 4
    ELSE 5

\* the furthest lifecycle state the run has shown so far, by its traces: a
\* closed resource (Draining), a started worker (Running), an attached kprobe
LifecycleReached ==
    IF mpc = "exited" THEN 4
    ELSE IF closeLog # <<>> THEN 3
    ELSE IF wpc # "idle" THEN 2
    ELSE IF res["kprobe"] # "none" THEN 1
    ELSE 0

\* C31: the lifecycle never falls back behind a state it has been in; the
\* worker is started, and so the first read made, only with the bus
\* connected, the kprobe attached and the perf reader open; and a startup
\* that failed ends the agent with no record read or published.
C31_LifecycleForward ==
    /\ Lifecycle >= LifecycleReached
    /\ wpc # "idle" =>
         /\ \A r \in Resources : res[r] # "none"
         /\ acquireLog = <<"nc", "objs", "kprobe", "reader">>
    /\ reads # <<>> => wpc # "idle"
    /\ pubs # <<>> => reads # <<>>
    /\ mpc \in {"fatal", "failDeferKp"} =>
         /\ wpc = "idle"
         /\ reads = <<>>
         /\ pubs = <<>>
         /\ closeLog \in {<<>>, <<"kprobe">>}

\* C31 witness: perf.NewReader failed after the kprobe was attached, and the
\* agent aborted without a read
C31_Witness ==
    /\ mpc = "fatal"
    /\ res["kprobe"] = "closed"
    /\ res["reader"] = "none"
    /\ wpc = "idle"
    /\ reads = <<>>

\* C32: in the uprobe variant every message goes out under the subject
\* <AppID>.jsonrpc.response-size, of three levels, with the context hash
\* "method:" followed by the method name of its record and the value equal
\* to the response size of its record.
C32_UprobeSubjectFormat ==
    \A k \in 1..Len(pubs) :
        LET ev == reads[pubs[k].id].ev
            f == pubs[k].feature
        IN /\ pubs[k].subject =
                AppIDText \o <<".", "j", "s", "o", "n", "r", "p", "c", ".", "r", "e", "s",
                               "p", "o", "n", "s", "e", "-", "s", "i", "z", "e">>
           /\ Len(SplitOn(pubs[k].subject, Dot)) = 3
           /\ Len(f.ContextHash) >= 7
           /\ SubSeq(f.ContextHash, 1, 7) = <<"m", "e", "t", "h", "o", "d", ":">>
           /\ SubSeq(f.ContextHash, 8, Len(f.ContextHash)) = f.Details.method
           /\ CString(ev.MethodName) = f.Details.method
           /\ f.Value = ev.ResponseSize

\* C32 witness: the record of a 1536-byte eth_getBalance response was
\* published with context hash method:eth_getBalance
C32_Witness ==
    /\ Len(pubs) = 1
    /\ reads[pubs[1].id].ev.ResponseSize = 1536
    /\ pubs[1].feature.Value = 1536
    /\ pubs[1].feature.ContextHash = <<"m", "e", "t", "h", "o", "d", ":">> \o EthGetBalance
    /\ Len(SplitOn(pubs[1].subject, Dot)) = 3

\* C33: in the uprobe variant at most one PerfReader.Read is started after
\* the context has been cancelled, however the cancel call interleaves with
\* the worker's check and read; once that read has been started no other
\* read is prepared or started, and the worker, back at its check, can only
\* return.
C33_AtMostOneLateRead ==
    /\ [](lateReads <= 1)
    /\ [](lateReads = 1 => wpc # "callRead")
    /\ [][lateReads = 1 => (wpc' = "reading" => wpc = "reading")]_vars
    /\ [][(lateReads = 1 /\ wpc = "loop") => wpc' \in {"loop", "returned"}]_vars

\* C33 witness: the one read of the run was started after the cancel call,
\* its record was published, and the worker returned at its next check
C33_Witness ==
    /\ lateReads = 1
    /\ Len(reads) = 1
    /\ Len(pubs) = 1
    /\ wpc = "returned"
    /\ wlog = "reader_shut_down"

\* C34: a signal that arrives at any moment of the run, the connection
\* retries and the attachment of the probe included, is not lost: the agent
\* ends, through the release of its resources when startup has succeeded and
\* through log.Fatalf when it has not.  A cancelled context stays cancelled,
\* and a signal that arrives after the handler has returned changes nothing
\* but the buffer of the channel.
C34_SignalNeverLost ==
    /\ (sigChan = 1 \/ hpc # "wait") ~> (mpc \in {"exited", "fatal"})
    /\ [](mpc = "exited" => \A r \in Resources : res[r] = "closed")
    /\ [][cancelled => cancelled']_vars
    /\ [][(hpc = "done" /\ sigChan' # sigChan) =>
            UNCHANGED <<mainVars, resVars, cancelled, hpc, workerVars, histVars>>]_vars

\* C34 witness: the signal was handled during the connection retries, a
\* second one has arrived since, and startup is still going on
C34_Witness ==
    /\ mpc \in {"connect", "kprobe"}
    /\ attempt >= 1
    /\ cancelled
    /\ hpc = "done"
    /\ sigChan = 1

\* C35 (as claimed): the worker makes no publish call once the bus
\* connection has been closed, and neither decodes nor publishes once main
\* has closed the perf reader and the eBPF objects.
C35_NoWorkAfterRelease ==
    [][/\ Len(pubs') > Len(pubs) => res["nc"] = "open"
       /\ (Len(pubs') > Len(pubs) \/ (wpc = "decode" /\ wpc' # "decode")) =>
              ~(res["reader"] = "closed" /\ res["objs"] = "closed")]_vars

\* the bytes of the sample at the place of the i-th member of the C struct
CMember(b, i) == SubSeq(b, COffsetOf(i) + 1, COffsetOf(i) + CFields[i].size * CFields[i].count)

\* the bytes of an event's fields, in the order of RPCEvent
GoMembers(ev) ==
    << UintBytes(ev.PID), UintBytes(ev.TimestampNs), UintBytes(ev.DataLen),
       UintBytes(ev.IsSend), UintBytes(ev.DestIP), UintBytes(ev.DestPort),
       ev.Comm, ev.Data >>

\* the sample in hand has the length the probe writes
FromProbe == record.rawLen = CSizeof

Min(a, b) == IF a < b THEN a ELSE b

\* the first min(size, MAX_DATA_SIZE) bytes of the payload of the send that
\* the record r reports
PayloadHead(r) == SubSeq(r.sent, 1, Min(r.ev.DataLen, MAX_DATA_SIZE))

\* the payload p starts with a JSON-RPC request that carries the method m
StartsWithRequest(p, m) == HasPrefixAt(p, <<"{">> \o MethodKey \o <<":", "\"">> \o m \o <<"\"">>, 1)

\* C37 (as claimed): the data field of every event the probe emits holds the
\* first min(size, 512) bytes of the payload sent, and a send whose payload
\* starts with a JSON-RPC request carrying method eth_X is published with
\* method eth_X.
C37_PayloadPrefixCaptured ==
    \A k \in 1..Len(pubs) :
        LET r == reads[pubs[k].id] IN
        /\ TrimRightNul(r.ev.Data) = TrimRightNul(PayloadHead(r))
        /\ \A m \in {EthGetBalance, EthCall} :
             StartsWithRequest(r.sent, m) => MethodOf(k) = m

\* the helper has been called on the payload of the record in hand
HelperCalled == extracted # <<>>

\* C38 (as claimed): for a payload that contains "method":"V" or
\* "method": "V" the helper returns exactly V; for an empty payload or one
\* without that field it returns unknown; it never indexes outside the
\* payload.
C38_ReturnsMethodValue ==
    HelperCalled =>
        /\ extracted[1] # Panic
        /\ record.key \in {MethodColonQuote, MethodColonSpaceQuote} =>
               extracted[1] = record.value
        /\ ~Contains(TrimRightNul(record.ev.Data), MethodColonQuote)
             /\ ~Contains(TrimRightNul(record.ev.Data), MethodColonSpaceQuote) =>
               extracted[1] = Unknown
=============================================================================
